---- MODULE Spec2Model ----
(***************************************************************************)
(* A model of the Overlord agent ("ghost", src/py/ghost.py): the framed    *)
(* JSON channel over a BufferedSocket, the request/response registry, and  *)
(* the control loop Start -> Register -> Listen -> Reset, for the AGENT    *)
(* and for the session children (TERMINAL, SHELL, FILE, FORWARD).          *)
(*                                                                         *)
(* A byte of the stream is modelled by a symbol [k, v]: the two separator  *)
(* bytes CR and LF, the braces of a JSON object, one symbol per            *)
(* "key": value member, one symbol for a JSON text that is not an object,  *)
(* and raw bytes.  A read may end between any two symbols.                 *)
(***************************************************************************)
EXTENDS Naturals, Integers, Sequences, FiniteSets, TLC

(***************************************************************************)
(* Bounds of the model.                                                    *)
(***************************************************************************)
\* Stand-in for _BUFSIZE (8192 bytes in the code), counted in symbols.
BUFSIZE == 14
\* Stand-ins for _PING_INTERVAL (5 s), _PING_TIMEOUT (10 s) and
\* _REQUEST_TIMEOUT_SECS (60 s); only their order and the strict
\* comparisons of the code matter.
PING_INTERVAL == 1
PING_TIMEOUT == 2
REQUEST_TIMEOUT_SECS == 3
\* The clock stops advancing at MaxTime.
MaxTime == 4
\* Request ids minted by one process (uuid4 in the code: always fresh).
MaxRid == 3
\* Connections one process opens.
MaxConn == 2
\* Messages the server writes on one connection.
MaxServerSends == 2
\* Downloads waiting in the download queue.
MaxQueue == 2
\* Children forked while a download can still be queued.
MaxChildren == 3

(***************************************************************************)
(* Symbols of the byte stream.                                             *)
(***************************************************************************)
Sym(k, v) == [k |-> k, v |-> v]
CR == Sym("CR", "")
LF == Sym("LF", "")
LBRACE == Sym("{", "")
RBRACE == Sym("}", "")
SEPARATOR == <<CR, LF>>

SUCCESS == "success"
FAILED == "failed"
DISCONNECTED == "disconnected"

\* The keys a JSON object of the protocol may carry, in the order json.dumps
\* writes them (insertion order of the dict literals in the code).
KeyOrder == <<"rid", "timeout", "name", "status", "payload",
              "p1", "p2", "p3", "p4", "p5", "p6", "p7", "p8">>
Keys == {KeyOrder[i] : i \in 1..Len(KeyOrder)}

(***************************************************************************)
(* Sequence helpers (Python slicing and searching).                        *)
(***************************************************************************)
Min(a, b) == IF a <= b THEN a ELSE b

\* buf[:n]
Take(s, n) == SubSeq(s, 1, Min(n, Len(s)))

\* buf[n:]
Drop(s, n) == SubSeq(s, Min(n, Len(s)) + 1, Len(s))

\* buf.index(_SEPARATOR): the 0-based offset of the first CR LF, or -1.
RECURSIVE IndexFrom(_, _)
IndexFrom(buf, i) ==
  IF i + 1 > Len(buf) - 1 THEN -1
  ELSE IF buf[i + 1] = CR /\ buf[i + 2] = LF THEN i
  ELSE IndexFrom(buf, i + 1)

Index(buf) == IndexFrom(buf, 0)

\* buf.split(_SEPARATOR): never empty, its last element is what follows the
\* last separator.
RECURSIVE Split(_)
Split(buf) ==
  LET i == Index(buf) IN
  IF i = -1 THEN <<buf>>
  ELSE <<Take(buf, i)>> \o Split(Drop(buf, i + 2))

(***************************************************************************)
(* json.dumps and json.loads on the protocol's objects.  A dict is a       *)
(* function from a subset of Keys to strings.                              *)
(***************************************************************************)
RECURSIVE DumpMembers(_, _)
DumpMembers(msg, i) ==
  IF i > Len(KeyOrder) THEN <<>>
  ELSE (IF KeyOrder[i] \in DOMAIN msg
          THEN <<Sym(KeyOrder[i], msg[KeyOrder[i]])>> ELSE <<>>)
       \o DumpMembers(msg, i + 1)

JsonDumps(msg) == <<LBRACE>> \o DumpMembers(msg, 1) \o <<RBRACE>>

\* CR and LF alone are JSON whitespace: json.loads skips them around a text.
IsSpace(s) == s = CR \/ s = LF

RECURSIVE StripLeft(_)
StripLeft(s) ==
  IF s # <<>> /\ IsSpace(Head(s)) THEN StripLeft(Tail(s)) ELSE s

RECURSIVE StripRight(_)
StripRight(s) ==
  IF s # <<>> /\ IsSpace(s[Len(s)]) THEN StripRight(Take(s, Len(s) - 1)) ELSE s

Strip(s) == StripRight(StripLeft(s))

\* The dict of a member list; a repeated key keeps its last value.
RECURSIVE MembersToDict(_)
MembersToDict(ms) ==
  IF ms = <<>> THEN [x \in {} |-> ""]
  ELSE LET d == MembersToDict(Take(ms, Len(ms) - 1))
           m == ms[Len(ms)]
       IN [x \in (DOMAIN d) \cup {m.k} |-> IF x = m.k THEN m.v ELSE d[x]]

\* json.loads(chunk): kind "object" (a dict), "other" (a JSON text that is
\* not an object: a number, a string, a list, null) or "error" (ValueError).
JsonLoads(chunk) ==
  LET s == Strip(chunk) IN
  IF Len(s) >= 2 /\ s[1] = LBRACE /\ s[Len(s)] = RBRACE
     /\ \A i \in 2..(Len(s) - 1) : s[i].k \in Keys
    THEN [kind |-> "object", obj |-> MembersToDict(SubSeq(s, 2, Len(s) - 1)),
          lit |-> ""]
  ELSE IF Len(s) = 1 /\ s[1].k = "lit"
    THEN [kind |-> "other", obj |-> [x \in {} |-> ""], lit |-> s[1].v]
  ELSE [kind |-> "error", obj |-> [x \in {} |-> ""], lit |-> ""]

(***************************************************************************)
(* BufferedSocket: _buf is the head buffer, the wire holds the bytes the   *)
(* kernel has for sock.recv, of which one recv returns n >= 1 (or none at  *)
(* end of stream).                                                         *)
(***************************************************************************)
\* BufferedSocket.Recv(bufsize) with sock.recv returning the next n bytes of
\* the wire: the data returned, the head buffer and the wire afterwards.
Recv(buf, w, bufsize, n) ==
  IF buf # <<>>
    THEN IF Len(buf) >= bufsize
           THEN [data |-> Take(buf, bufsize), buf |-> Drop(buf, bufsize),
                 wire |-> w]
           ELSE LET m == Min(n, bufsize - Len(buf)) IN
                [data |-> buf \o Take(w, m), buf |-> <<>>, wire |-> Drop(w, m)]
    ELSE LET m == Min(n, bufsize) IN
         [data |-> Take(w, m), buf |-> <<>>, wire |-> Drop(w, m)]

\* BufferedSocket.UnRecv(data)
UnRecv(buf, data) == data \o buf

\* The bytes of a sequence of reads, in order.
RECURSIVE Flatten(_)
Flatten(reads) ==
  IF reads = <<>> THEN <<>> ELSE Head(reads) \o Flatten(Tail(reads))

(***************************************************************************)
(* State.                                                                  *)
(***************************************************************************)
VARIABLES
  mode,             \* Ghost._mode
  file_op,          \* Ghost._file_op[0]: "download", "upload" or "None"
  overlord_addrs,   \* Ghost._overlord_addrs, the candidate list
  pc,               \* where the control thread (Start) is
  cont,             \* what follows the Reset in progress
  err,              \* the failure the control thread last raised
  idx,              \* Register: position of the for loop in the candidates
  sock,             \* Ghost._sock: "None" or "open" ("closed": process gone)
  buf,              \* BufferedSocket._buf, the head buffer
  register_status,  \* Ghost._register_status
  reset,            \* Ghost._reset (threading.Event)
  requests,         \* Ghost._requests: rid -> [time, timeout, handler]
  last_ping,        \* Ghost._last_ping
  nextRid,          \* number of the next rid SendRequest mints
  session,          \* the session handler that owns the socket, or "None"
  now,              \* Ghost.Timestamp()
  wire,             \* bytes written by the server and not yet received
  peerClosed,       \* the server has closed its end
  conns,            \* connections opened so far
  sends,            \* messages the server wrote on this connection
  script,           \* the messages and raw bytes a scripted server writes
  issued,           \* history: rid -> [name, timeout, handler, args] of every request sent
  delivered,        \* history: rid -> what its handler was invoked with
  sent,             \* history: [name, rid, status] of the JSON messages sent on this socket
  parsed,           \* history: chunks given to json.loads on this socket
  dispatched,       \* history: objects handed to HandleRequest/HandleResponse
  sess,             \* history: the reads of the session handler, RecvBuf first
  mid,              \* Ghost._mid, the machine id the caller asked for
  ident,            \* the identity sources of the machine GetMachineID reads
  machine_id,       \* Ghost._machine_id
  connected_addr,   \* Ghost._connected_addr
  download_queue,   \* Ghost._download_queue
  children,         \* the child ghosts forked by SpawnGhost, in order
  fdops,            \* what a session did to its pty, the command's stdin or its target
  local,            \* the local side of a session: the command, the file, the target
  cli,              \* ovl.py: the push or pull command the CLI client is running
  lan,              \* Ghost._queue and the LAN discovery thread that shares it
  rpc               \* what the local-IPC thread writes: the two tables; history: the downloads queued

vars == <<mode, file_op, overlord_addrs, pc, cont, err, idx, sock, buf,
          register_status, reset, requests, last_ping, nextRid, session, now,
          wire, peerClosed, conns, sends, script, issued, delivered, sent,
          parsed, dispatched, sess, mid, ident, machine_id, connected_addr,
          download_queue, children, fdops, local, cli, rpc, lan>>

envVars == <<wire, peerClosed, sends, script, now>>

idVars == <<mid, ident, machine_id>>

spawnVars == <<connected_addr, download_queue, children>>

Modes == {"AGENT", "TERMINAL", "SHELL", "FILE", "FORWARD"}

\* The clock at process start: the epoch time is far beyond _PING_INTERVAL,
\* so the first test "Timestamp() - _last_ping > _PING_INTERVAL" succeeds.
T0 == PING_INTERVAL + 1

RidStr(i) == <<"r1", "r2", "r3", "r4", "r5", "r6", "r7", "r8", "r9">>[i]
Rids == {RidStr(i) : i \in 1..MaxRid}

EmptyDict == [x \in {} |-> ""]
Put(f, k, v) == [x \in (DOMAIN f) \cup {k} |-> IF x = k THEN v ELSE f[x]]
Remove(f, k) == [x \in (DOMAIN f) \ {k} |-> f[x]]

\* The argument of a request handler: a response, or None.
NoneArg == [none |-> TRUE, msg |-> EmptyDict]
RespArg(m) == [none |-> FALSE, msg |-> m]

(***************************************************************************)
(* The machine id.  A source of identity is "absent" when reading it fails *)
(* (no such file, no such module, no match), else the string read, which   *)
(* may be empty.                                                           *)
(***************************************************************************)
RANDOM_MID == "##random_mid##"

\* str(uuid.uuid4()) for a machine id: a fresh value at every call, one call
\* in __init__ (k = 0) and one for the k-th connection.
Uuid4(k) == <<"u0", "u1", "u2", "u3", "u4">>[k + 1]

\* Ghost.GetMachineID, with the value uuid4 would return.  "if self._mid"
\* holds of a mid that is neither None nor the empty string.
GetMachineID(m, id, uuid) ==
  IF m \notin {"None", ""} THEN m
  ELSE IF id.platform = "Darwin" /\ id.serial # "absent" THEN id.serial
  ELSE IF id.device_id # "absent" THEN id.device_id
  ELSE IF id.product_uuid # "absent" THEN id.product_uuid
  ELSE IF id.macs # "absent" THEN id.macs
  ELSE uuid

(***************************************************************************)
(* The code that runs inside one iteration of Listen, on a record M of the *)
(* fields it reads and writes:                                             *)
(*   req, st, rst, buf, lp, rid      _requests, _register_status, _reset,  *)
(*                                   _sock._buf, _last_ping, next rid      *)
(*   iss, dlv, out, parsed, disp     the histories                         *)
(*   t, sendOk, localOk              the clock and what the environment    *)
(*                                   answers: whether a send succeeds and  *)
(*                                   whether the session's local resource  *)
(*                                   (file, pty, target) can be opened     *)
(*   session, sess, fd               the session handler started, its      *)
(*                                   reads and what it did with them       *)
(*   addr, caddr, dq, kids           the candidate of Register's loop,     *)
(*                                   _connected_addr, _download_queue, the *)
(*                                   children forked                       *)
(*   raised                          "none", or the exception propagating  *)
(***************************************************************************)
Ok(M) == M.raised = "none"
Raise(M, e) == [M EXCEPT !.raised = e]

\* Ghost.SendMessage: a request carries a name, a response a status.
SendMessage(M, name, rid, status) ==
  IF M.sendOk
    THEN [M EXCEPT !.out = Append(@, [name |-> name, rid |-> rid,
                                      status |-> status])]
    ELSE Raise(M, "socket.error")

\* SendRequest without the test "if timeout >= 0".
SendRequestAlwaysStores(M, name, args, handler, timeout) ==
  LET rid == RidStr(M.rid)
      M1 == [M EXCEPT !.rid = @ + 1,
                      !.iss = Put(@, rid, [name |-> name, timeout |-> timeout,
                                           handler |-> handler, args |-> args]),
                      !.req = Put(@, rid, [time |-> M.t, timeout |-> timeout,
                                           handler |-> handler])]
  IN IF M.sendOk
       THEN [M1 EXCEPT !.out = Append(@, [name |-> name, rid |-> rid,
                                          status |-> "None"])]
       ELSE [M1 EXCEPT !.raised = "socket.error"]

\* Ghost.SendRequest
SendRequest(M, name, args, handler, timeout) ==
  LET rid == RidStr(M.rid)
      M1 == [M EXCEPT !.rid = @ + 1,
                      !.iss = Put(@, rid, [name |-> name, timeout |-> timeout,
                                           handler |-> handler, args |-> args])]
      M2 == IF timeout >= 0
              THEN [M1 EXCEPT !.req = Put(@, rid, [time |-> M.t,
                                                  timeout |-> timeout,
                                                  handler |-> handler])]
              ELSE M1
  IN SendMessage(M2, name, rid, "None")

\* The characters of the operator's stream: ESC, "[", the characters of
\* [0-9;?] and of [A-Za-z] in _ESCAPE_SEQ_RE, and others.
Ch(c) == Sym("raw", c)
ESC == Ch("ESC")
Digits == {Ch("8"), Ch("2"), Ch("3")}
ParamChars == Digits \cup {Ch(";"), Ch("?")}
Letters == {Ch("a"), Ch("b"), Ch("c"), Ch("t"), Ch("A")}

\* os.write(fd, data), and fcntl.ioctl(fd, TIOCSWINSZ, rows, cols).
Write(data) == IF data = <<>> THEN <<>> ELSE <<[op |-> "write", data |-> data]>>
Ioctl(rows, cols) == <<[op |-> "ioctl", data |-> <<rows, cols>>]>>

\* buf.find(b'\x1b['), from offset i: the offset found, or -1.
RECURSIVE FindEsc(_, _)
FindEsc(b, i) ==
  IF i + 2 > Len(b) THEN -1
  ELSE IF b[i + 1] = ESC /\ b[i + 2] = Ch("[") THEN i
  ELSE FindEsc(b, i + 1)

\* The offset that follows the characters of [0-9;?] at offset j.
RECURSIVE SkipParams(_, _)
SkipParams(b, j) ==
  IF j + 1 <= Len(b) /\ b[j + 1] \in ParamChars THEN SkipParams(b, j + 1)
  ELSE j

\* _ESCAPE_SEQ_RE.search(buffer), from offset i: the offsets [start, end) of
\* the first match in the buffer, start = -1 when there is none.
RECURSIVE Search(_, _)
Search(b, i) ==
  IF FindEsc(b, i) = -1 THEN [start |-> -1, end |-> -1]
  ELSE IF SkipParams(b, FindEsc(b, i) + 2) + 1 <= Len(b)
          /\ b[SkipParams(b, FindEsc(b, i) + 2) + 1] \in Letters
    THEN [start |-> FindEsc(b, i),
          end |-> SkipParams(b, FindEsc(b, i) + 2) + 1]
  ELSE Search(b, FindEsc(b, i) + 1)

\* args.split(';')
RECURSIVE SplitOn(_, _)
SplitOn(s, sep) ==
  IF \A i \in DOMAIN s : s[i] # sep THEN <<s>>
  ELSE LET i == CHOOSE j \in DOMAIN s :
                  s[j] = sep /\ \A k \in 1..(j - 1) : s[k] # sep
       IN <<Take(s, i - 1)>> \o SplitOn(Drop(s, i), sep)

\* int(x) succeeds.
IsInt(x) == x # <<>> /\ \A i \in DOMAIN x : x[i] \in Digits

\* Ghost.HandleTTYControl after the search: m is the match, params are
\* its arguments split.  The result is the count returned and what was
\* done to the fd.
TTYControl(buffer, m, params) ==
  IF m.start = -1 THEN [consumed |-> 2, ops |-> Write(Take(buffer, 2))]
  ELSE IF buffer[m.end] = Ch("t") /\ Len(params) >= 3
          /\ params[1] = <<Ch("8")>> /\ IsInt(params[2]) /\ IsInt(params[3])
    THEN [consumed |-> m.end - m.start, ops |-> Ioctl(params[2], params[3])]
  ELSE [consumed |-> m.end - m.start,
        ops |-> Write(SubSeq(buffer, m.start + 1, m.end))]

\* Ghost.HandleTTYControl
HandleTTYControl(buffer, m) ==
  TTYControl(buffer, m,
             IF m.start = -1 THEN <<>>
             ELSE SplitOn(SubSeq(buffer, m.start + 3, m.end - 1), Ch(";")))

\* Ghost.SpawnTTYServer._ProcessBuffer: what is done to the fd.
RECURSIVE ProcessBuffer(_)
ProcessRest(b, pos, h) ==
  Write(Take(b, pos)) \o h.ops \o ProcessBuffer(Drop(b, pos + h.consumed))

ProcessBuffer(b) ==
  IF FindEsc(b, 0) = -1 THEN Write(b)
  ELSE ProcessRest(b, FindEsc(b, 0),
                   HandleTTYControl(Drop(b, FindEsc(b, 0)),
                                    Search(Drop(b, FindEsc(b, 0)), 0)))

\* What a session handler does with the bytes of the head buffer (RecvBuf)
\* and of a read: the terminal scans them, the shell writes the head buffer
\* to the command's stdin, the forwarder sends them to its target.
SessionOps(handler, data, first) ==
  CASE handler = "SpawnTTYServer" -> ProcessBuffer(data)
    [] handler = "SpawnShellServer" /\ first -> Write(data)
    [] handler = "SpawnPortForwardServer" -> Write(data)
    [] OTHER -> <<>>

\* A session handler that returns to Listen instead of keeping the socket.
StartSessionReturns(M, handler) ==
  [M EXCEPT !.session = handler, !.sess = <<M.buf>>, !.buf = <<>>]

\* The session handlers read the head buffer first (RecvBuf) and then own
\* the socket; they end in os._exit.  When the local resource cannot be
\* opened they close the socket and exit without reading.
StartSession(M, handler) ==
  IF M.localOk
    THEN [M EXCEPT !.session = handler, !.sess = <<M.buf>>, !.buf = <<>>,
                   !.fd = @ \o SessionOps(handler, M.buf, TRUE),
                   !.raised = "session"]
    ELSE [M EXCEPT !.session = handler, !.raised = "os._exit"]

\* Ghost.StartDownloadServer: opens the file and sends it block by block up
\* to end of file, reading nothing.  An exception is logged: the file cannot
\* be opened (self._file_op is None in a process that was given no file
\* operation), a send raises.  Then the socket is closed and the process
\* exits.  `at` records how the loop ended.
StartDownloadServer(M) ==
  [M EXCEPT !.session = "StartDownloadServer",
            !.io = IF file_op = "None" THEN [@ EXCEPT !.at = "TypeError"]
                   ELSE IF ~M.localOk THEN [@ EXCEPT !.at = "OSError"]
                   ELSE IF ~M.sendOk THEN [@ EXCEPT !.at = "socket.error"]
                   ELSE [@ EXCEPT !.at = "sent", !.left = <<>>,
                                  !.tosock = @ \o M.io.left],
            !.raised = "os._exit"]

\* What Ghost._queue holds: the strings 'pause' and 'resume', and the
\* (ip, port) tuples of the beacons.
Token(t) == [kind |-> "str", v |-> t]

Beacon(addr) == [kind |-> "tuple", v |-> addr]

\* registered without its two raise statements: it only records the status.
registeredNeverRaises(M, arg) ==
  IF arg.none THEN M ELSE [M EXCEPT !.st = arg.msg["status"]]

\* Ghost.Register.registered
registered(M, arg) ==
  IF arg.none
    THEN Raise([M EXCEPT !.rst = TRUE], "Register request timeout")
    ELSE LET M1 == [M EXCEPT !.st = arg.msg["status"]] IN
         IF arg.msg["status"] # SUCCESS
           THEN Raise([M1 EXCEPT !.rst = TRUE], "Register: failed")
           ELSE [M1 EXCEPT !.caddr = M.addr,
                           !.lan.queue = Append(@, Token("pause"))]

\* timeout_handler that ignores None.
timeout_handlerIgnoresNone(M, arg) == M

\* Ghost.Ping.timeout_handler
timeout_handler(M, arg) ==
  IF arg.none THEN Raise(M, "PingTimeoutError") ELSE M

\* The call that follows one that may have raised.
StartSessionIfOk(M, handler) == IF Ok(M) THEN StartSession(M, handler) ELSE M

\* Ghost.InitiateFileOperation
InitiateFileOperation(M, fop) ==
  IF fop = "download"
    THEN IF ~M.localOk THEN Raise(M, "SystemExit")
         ELSE SendRequest(M, "request_to_download", EmptyDict, "None",
                          REQUEST_TIMEOUT_SECS)
  ELSE IF fop = "upload"
    THEN StartSessionIfOk(SendRequest(M, "clear_to_upload", EmptyDict, "None",
                                      -1),
                          "StartUploadServer")
  ELSE M

\* callable(handler)
Callable(handler) == handler # "None"

\* handler(arg), for the handlers Register and Ping install.
Invoke(M, handler, arg, fop) ==
  CASE handler = "registered" -> registered(M, arg)
    [] handler = "timeout_handler" -> timeout_handler(M, arg)
    [] handler = "InitiateFileOperation" -> InitiateFileOperation(M, fop)
    [] handler \in {"SpawnTTYServer", "SpawnShellServer",
                    "SpawnPortForwardServer"} -> StartSession(M, handler)
    [] OTHER -> M

\* History: the handler of rid is invoked with `what`.
Deliver(M, rid, what) == [M EXCEPT !.dlv[rid] = Append(@, what)]

\* HandleResponse without "del self._requests[rid]".
HandleResponseKeepsEntry(M, response, fop) ==
  IF "rid" \notin DOMAIN response THEN [M EXCEPT !.raised = "KeyError"]
  ELSE LET rid == response["rid"] IN
       IF rid \in DOMAIN M.req /\ M.req[rid].handler # "None"
         THEN Invoke(Deliver(M, rid, response["status"]), M.req[rid].handler,
                     RespArg(response), fop)
         ELSE M

\* Ghost.HandleResponse
HandleResponse(M, response, fop) ==
  IF "rid" \notin DOMAIN response THEN Raise(M, "KeyError")
  ELSE LET rid == response["rid"] IN
       IF rid \in DOMAIN M.req
         THEN LET handler == M.req[rid].handler
                  M1 == [M EXCEPT !.req = Remove(@, rid)]
              IN IF Callable(handler)
                   THEN Invoke(Deliver(M1, rid, response["status"]), handler,
                               RespArg(response), fop)
                   ELSE M1
         ELSE M

\* The payload objects of the model, by the text that encodes them.
Payload(text) ==
  [k \in (CASE text = "{sid}" -> {"sid"}
            [] text = "{sid,tty_device}" -> {"sid", "tty_device"}
            [] text = "{sid,command}" -> {"sid", "command"}
            [] text = "{sid,port}" -> {"sid", "port"}
            [] text = "{sid,host,port}" -> {"sid", "host", "port"}
            [] text = "{sid,filename}" -> {"sid", "filename"}
            [] text = "{sid,filename:missing}" -> {"sid", "filename"}
            [] text = "{sid,filename,check_only}" ->
                 {"sid", "filename", "check_only"}
            [] OTHER -> {})
     |-> CASE k = "sid" -> "s1"
           [] k = "check_only" -> "true"
           [] k = "filename" /\ text = "{sid,filename:missing}" -> "missing"
           [] OTHER -> "v"]

\* Ghost.SpawnGhost: the fork, and the Ghost the child constructs.
SpawnGhost(M, m, sid, terminal_sid, fop) ==
  [M EXCEPT !.kids = Append(@, [mode |-> m, overlord_addrs |-> <<M.caddr>>,
                                mid |-> RANDOM_MID, sid |-> sid,
                                terminal_sid |-> terminal_sid,
                                file_op |-> fop])]

\* Ghost.SendResponse, and SendErrorResponse with the status FAILED.
SendResponse(M, omsg, status) ==
  IF "rid" \notin DOMAIN omsg THEN Raise(M, "KeyError")
  ELSE SendMessage(M, "None", omsg["rid"], status)

\* The branches of HandleRequest for terminal, shell and forward: the
\* payload items the call of SpawnGhost indexes, the fork, the response.
SpawnAndRespond(M, msg, payload, m, indexed) ==
  IF ~(indexed \subseteq DOMAIN payload) THEN Raise(M, "KeyError")
  ELSE SendResponse(SpawnGhost(M, m, payload["sid"], "None", "None"), msg,
                    SUCCESS)

\* HandleFileUploadRequest without the test of check_only.
HandleFileRequestAlwaysSpawns(M, msg, payload, fop) ==
  IF payload["filename"] = "missing" THEN SendResponse(M, msg, FAILED)
  ELSE SendResponse(SpawnGhost(M, "FILE", payload["sid"], "None", fop), msg,
                    SUCCESS)

\* Ghost.HandleFileDownloadRequest and Ghost.HandleFileUploadRequest: the
\* file is opened (download) or created (upload) first, which fails for the
\* file called "missing".
HandleFileRequest(M, msg, payload, fop) ==
  IF "filename" \notin DOMAIN payload THEN Raise(M, "KeyError")
  ELSE IF payload["filename"] = "missing" THEN SendResponse(M, msg, FAILED)
  ELSE IF fop = "upload" /\ "check_only" \in DOMAIN payload
    THEN SendResponse(M, msg, SUCCESS)
  ELSE IF "sid" \notin DOMAIN payload THEN Raise(M, "KeyError")
  ELSE SendResponse(SpawnGhost(M, "FILE", payload["sid"], "None", fop), msg,
                    SUCCESS)

\* Ghost.HandleRequest, for the commands that fork a child and for
\* clear_to_download; a command of no branch falls through.
HandleRequest(M, msg) ==
  IF "payload" \notin DOMAIN msg THEN Raise(M, "KeyError")
  ELSE CASE msg["name"] = "terminal" ->
              SpawnAndRespond(M, msg, Payload(msg["payload"]), "TERMINAL",
                              {"sid", "tty_device"})
         [] msg["name"] = "shell" ->
              SpawnAndRespond(M, msg, Payload(msg["payload"]), "SHELL",
                              {"sid", "command"})
         [] msg["name"] = "forward" ->
              SpawnAndRespond(M, msg, Payload(msg["payload"]), "FORWARD",
                              {"sid", "port"})
         [] msg["name"] = "file_download" ->
              HandleFileRequest(M, msg, Payload(msg["payload"]), "download")
         [] msg["name"] = "file_upload" ->
              HandleFileRequest(M, msg, Payload(msg["payload"]), "upload")
         [] msg["name"] = "clear_to_download" -> StartDownloadServer(M)
         [] OTHER -> M

\* The sid registered for a tty name (Ghost._ttyname_to_sid).
ttyname_to_sid == rpc.ttyname_to_sid

\* InitiateDownload taking the pair queued last instead of the one queued
\* first.
InitiateDownloadTakesLast(M) ==
  LET n == Len(M.dq)
      M1 == [M EXCEPT !.dq = SubSeq(@, 1, n - 1)]
  IN IF M.dq[n].ttyname \notin DOMAIN ttyname_to_sid
       THEN Raise(M1, "KeyError")
       ELSE SpawnGhost(M1, "FILE", "None", ttyname_to_sid[M.dq[n].ttyname],
                       "download")

\* Ghost.InitiateDownload
InitiateDownload(M) ==
  IF Head(M.dq).ttyname \notin DOMAIN ttyname_to_sid
    THEN Raise([M EXCEPT !.dq = Tail(@)], "KeyError")
    ELSE SpawnGhost([M EXCEPT !.dq = Tail(@)], "FILE", "None",
                    ttyname_to_sid[Head(M.dq).ttyname], "download")

\* The body of ParseMessage's for loop after json.loads returned j.
DispatchLoaded(M, j, fop) ==
  IF j.kind = "error" THEN M
  ELSE IF j.kind = "other"
    \* 'name' in msg: a TypeError on a number or null; a list that holds
    \* neither word is "mal-formed" and ignored.
    THEN IF j.lit = "[]" THEN M ELSE Raise(M, "TypeError")
  ELSE IF "name" \in DOMAIN j.obj
    THEN HandleRequest([M EXCEPT !.disp = Append(@, j.obj)], j.obj)
  ELSE IF "status" \in DOMAIN j.obj
    THEN HandleResponse([M EXCEPT !.disp = Append(@, j.obj)], j.obj, fop)
  ELSE M

\* The body of ParseMessage's for loop, for one chunk.
Dispatch(M, chunk, fop) ==
  DispatchLoaded([M EXCEPT !.parsed = @ + 1], JsonLoads(chunk), fop)

RECURSIVE DispatchAll(_, _, _)
DispatchAll(M, chunks, fop) ==
  IF chunks = <<>> \/ ~Ok(M) THEN M
  ELSE DispatchAll(Dispatch(M, Head(chunks), fop), Tail(chunks), fop)

\* Ghost.ParseMessage(buf, single)
\* ParseMessage without "self._sock.UnRecv(buf[index + 2:])".
ParseSingleDropsRest(M, data, index, fop) ==
  IF index = -1 THEN [M EXCEPT !.buf = UnRecv(@, data)]
  ELSE DispatchAll(M, <<Take(data, index)>>, fop)

ParseSingle(M, data, index, fop) ==
  IF index = -1 THEN [M EXCEPT !.buf = UnRecv(@, data)]
  ELSE DispatchAll([M EXCEPT !.buf = UnRecv(@, Drop(data, index + 2))],
                   <<Take(data, index)>>, fop)

ParseSplit(M, msgs_json, fop) ==
  DispatchAll([M EXCEPT !.buf = UnRecv(@, msgs_json[Len(msgs_json)])],
              Take(msgs_json, Len(msgs_json) - 1), fop)

\* A ParseMessage that splits whatever the register status.
ParseMessageSplits(M, data, single, fop) == ParseSplit(M, Split(data), fop)

ParseMessage(M, data, single, fop) ==
  IF single THEN ParseSingle(M, data, Index(data), fop)
  ELSE ParseSplit(M, Split(data), fop)

\* Ghost.ScanForTimeoutRequests: the loop over list(self._requests), which
\* is in the order the requests were sent.
\* The body of the loop for one rid that has timed out: handler(None), and
\* "del self._requests[rid]" unless the handler raised.
ScanExpire(M, rid, handler, fop) ==
  IF Callable(handler) THEN Invoke(Deliver(M, rid, "null"), handler, NoneArg, fop)
  ELSE M

ScanDelete(M, rid) == IF Ok(M) THEN [M EXCEPT !.req = Remove(@, rid)] ELSE M

RECURSIVE ScanFrom(_, _, _, _)
ScanFrom(M, snapshot, i, fop) ==
  IF i > MaxRid \/ ~Ok(M) THEN M
  ELSE IF RidStr(i) \in snapshot
          /\ M.t - M.req[RidStr(i)].time > M.req[RidStr(i)].timeout
    THEN ScanFrom(ScanDelete(ScanExpire(M, RidStr(i), M.req[RidStr(i)].handler,
                                        fop), RidStr(i)),
                  snapshot, i + 1, fop)
  ELSE ScanFrom(M, snapshot, i + 1, fop)

ScanForTimeoutRequests(M, fop) == ScanFrom(M, DOMAIN M.req, 1, fop)

\* Ghost.Ping
Ping(M) ==
  SendRequest([M EXCEPT !.lp = M.t], "ping", EmptyDict, "timeout_handler",
              PING_TIMEOUT)

(***************************************************************************)
(* The control thread: Start, Register, Listen, Reset.                     *)
(***************************************************************************)
\* The record of the fields one iteration of Listen works on.
Fields(sendOk, localOk) ==
  [req |-> requests, st |-> register_status, rst |-> reset, buf |-> buf,
   lp |-> last_ping, rid |-> nextRid, iss |-> issued, dlv |-> delivered,
   out |-> sent, parsed |-> parsed, disp |-> dispatched, session |-> session,
   sess |-> sess, t |-> now, sendOk |-> sendOk, localOk |-> localOk,
   addr |-> IF idx \in DOMAIN overlord_addrs THEN overlord_addrs[idx]
            ELSE "None",
   caddr |-> connected_addr, dq |-> download_queue, kids |-> children,
   fd |-> fdops, io |-> local, lan |-> lan, raised |-> "none"]

Commit(M) ==
  /\ requests' = M.req
  /\ register_status' = M.st
  /\ reset' = M.rst
  /\ buf' = M.buf
  /\ last_ping' = M.lp
  /\ nextRid' = M.rid
  /\ issued' = M.iss
  /\ delivered' = M.dlv
  /\ sent' = M.out
  /\ parsed' = M.parsed
  /\ dispatched' = M.disp
  /\ session' = M.session
  /\ sess' = M.sess
  /\ connected_addr' = M.caddr
  /\ download_queue' = M.dq
  /\ children' = M.kids
  /\ fdops' = M.fd
  /\ local' = M.io
  /\ cli' = cli
  /\ lan' = M.lan
  /\ rpc' = rpc

\* The handler Register installs for the register request, by mode.
RegisterHandler(m) ==
  CASE m = "AGENT" -> "registered"
    [] m = "TERMINAL" -> "SpawnTTYServer"
    [] m = "SHELL" -> "SpawnShellServer"
    [] m = "FILE" -> "InitiateFileOperation"
    [] m = "FORWARD" -> "SpawnPortForwardServer"

\* Start: the top of the while loop, up to the call of Register:
\* self._queue.get(False) takes what is first in the queue, and a tuple
\* that is no candidate yet is appended to the candidates.
StartLoop ==
  /\ pc = "Start"
  /\ idx' = 1
  /\ pc' = "Try"
  /\ IF lan.queue = <<>>
       THEN lan' = lan /\ overlord_addrs' = overlord_addrs
       ELSE /\ lan' = [lan EXCEPT !.queue = Tail(@)]
            /\ overlord_addrs' =
                 IF /\ Head(lan.queue).kind = "tuple"
                    /\ \A i \in DOMAIN overlord_addrs :
                         overlord_addrs[i] # Head(lan.queue).v
                   THEN Append(overlord_addrs, Head(lan.queue).v)
                   ELSE overlord_addrs
  /\ UNCHANGED <<mode, file_op, cont, err, sock, buf,
                 register_status, reset, requests, last_ping, nextRid,
                 session, issued, delivered, sent, parsed, dispatched, sess,
                 conns>>
  /\ UNCHANGED envVars
  /\ UNCHANGED <<idVars, spawnVars, fdops, local, cli, rpc>>

\* Register: the head of "for addr in self._overlord_addrs", and the
\* RuntimeError raised when the candidates are used up.
Try ==
  /\ pc = "Try"
  /\ IF idx > Len(overlord_addrs)
       THEN /\ err' = "Cannot connect to any server"
            /\ pc' = "Sleep"
            /\ cont' = cont
       ELSE /\ pc' = "Reset"
            /\ cont' = "Connect"
            /\ err' = err
  /\ UNCHANGED <<mode, file_op, overlord_addrs, idx, sock, buf,
                 register_status, reset, requests, last_ping, nextRid,
                 session, issued, delivered, sent, parsed, dispatched, sess,
                 conns>>
  /\ UNCHANGED envVars
  /\ UNCHANGED <<idVars, spawnVars, fdops, local, cli, rpc, lan>>

\* Reset that calls every pending handler with None before it clears the map
\* (what Reset would do if it reported the loss of the connection).
ResetCloseNotifies ==
  /\ pc = "Reset"
  /\ sock' = "None"
  /\ reset' = FALSE
  /\ last_ping' = 0
  /\ requests' = EmptyDict
  /\ delivered' = [r \in DOMAIN delivered |->
                     IF r \in DOMAIN requests THEN Append(delivered[r], "null")
                     ELSE delivered[r]]
  /\ wire' = <<>>
  /\ peerClosed' = FALSE
  /\ sent' = <<>>
  /\ parsed' = 0
  /\ dispatched' = <<>>
  /\ pc' = "Reset2"
  /\ UNCHANGED <<mode, file_op, overlord_addrs, cont, err, idx, buf,
                 register_status, nextRid, session, issued, sess, conns, sends,
                 script, now>>
  /\ UNCHANGED <<idVars, spawnVars, fdops, local, cli, rpc, lan>>

\* Reset, up to the clearing of the request map.  Closing the socket drops
\* what was in flight on it, and the histories of the socket start afresh.
ResetClose ==
  /\ pc = "Reset"
  /\ sock' = "None"
  /\ reset' = FALSE
  /\ last_ping' = 0
  /\ requests' = EmptyDict
  /\ wire' = <<>>
  /\ peerClosed' = FALSE
  /\ sent' = <<>>
  /\ parsed' = 0
  /\ dispatched' = <<>>
  /\ pc' = "Reset2"
  /\ UNCHANGED <<mode, file_op, overlord_addrs, cont, err, idx, buf,
                 register_status, nextRid, session, issued, delivered, sess,
                 conns, sends, script, now>>
  /\ UNCHANGED <<idVars, spawnVars, fdops, local, cli, rpc, lan>>

\* Reset, from LoadProperties on, and the code that follows the call:
\* the next candidate (Register), the end of Listen, the end of Start's loop.
ResetDone ==
  /\ pc = "Reset2"
  /\ register_status' = DISCONNECTED
  /\ CASE cont = "Connect" -> pc' = "Connect" /\ idx' = idx /\ sock' = sock
       [] cont = "Start" -> pc' = "Start" /\ idx' = idx /\ sock' = sock
       \* Listen left its loop by break: queue.put('resume'), then
       \* sys.exit(1) in a child, the next candidate in the AGENT.
       [] cont = "ListenBreak" ->
            IF mode # "AGENT"
              THEN pc' = "Exited" /\ idx' = idx /\ sock' = "closed"
              ELSE pc' = "Try" /\ idx' = idx + 1 /\ sock' = sock
       \* An exception leaves Listen and Register: Start catches it.
       [] cont = "ListenRaise" -> pc' = "Sleep" /\ idx' = idx /\ sock' = sock
       \* SystemExit is not caught.
       [] cont = "SysExit" -> pc' = "Exited" /\ idx' = idx /\ sock' = "closed"
  /\ lan' = IF cont = "ListenBreak"
              THEN [lan EXCEPT !.queue = Append(@, Token("resume"))]
              ELSE lan
  /\ UNCHANGED <<mode, file_op, overlord_addrs, cont, err, buf, reset,
                 requests, last_ping, nextRid, session, issued, delivered,
                 sent, parsed, dispatched, sess, conns>>
  /\ UNCHANGED envVars
  /\ UNCHANGED <<idVars, spawnVars, fdops, local, cli, rpc>>

\* Start: time.sleep(_RETRY_INTERVAL) in the except clauses, then Reset.
Sleep ==
  /\ pc = "Sleep"
  /\ pc' = "Reset"
  /\ cont' = "Start"
  /\ UNCHANGED <<mode, file_op, overlord_addrs, err, idx, sock, buf,
                 register_status, reset, requests, last_ping, nextRid,
                 session, issued, delivered, sent, parsed, dispatched, sess,
                 conns>>
  /\ UNCHANGED envVars
  /\ UNCHANGED <<idVars, spawnVars, fdops, local, cli, rpc, lan>>

\* Register, after SendRequest('register'): Listen if it was sent, the next
\* candidate if the send raised socket.error.
Connected(M) ==
  /\ sock' = "open"
  /\ buf' = M.buf
  /\ requests' = M.req
  /\ nextRid' = M.rid
  /\ issued' = M.iss
  /\ sent' = M.out
  /\ parsed' = M.parsed
  /\ dispatched' = M.disp
  /\ IF Ok(M) THEN pc' = "Listen" /\ idx' = idx
              ELSE pc' = "Try" /\ idx' = idx + 1

\* Register: connect to the candidate, wrap the socket, send register.
\* outcome: "refused" (socket.error, TLS error), "ok", or "sendfail"
\* (socket.error from SendMessage): a failure moves on to the next candidate.
Connect(outcome, limit) ==
  /\ pc = "Connect"
  /\ IF outcome = "refused"
       THEN /\ idx' = idx + 1
            /\ pc' = "Try"
            /\ UNCHANGED <<sock, buf, requests, nextRid, issued, sent, parsed,
                           dispatched, conns, sends, wire, peerClosed,
                           machine_id>>
       ELSE /\ conns < limit
            /\ nextRid <= MaxRid
            /\ machine_id' = GetMachineID(mid, ident, Uuid4(conns + 1))
            /\ Connected(SendRequest([Fields(outcome = "ok", TRUE) EXCEPT
                                         !.buf = <<>>, !.out = <<>>,
                                         !.parsed = 0, !.disp = <<>>],
                                      "register",
                                      ("mode" :> mode) @@ ("mid" :> machine_id'),
                                      RegisterHandler(mode),
                                      REQUEST_TIMEOUT_SECS))
            /\ conns' = conns + 1
            /\ sends' = 0
            /\ wire' = <<>>
            /\ peerClosed' = FALSE
  /\ UNCHANGED <<mode, file_op, overlord_addrs, cont, err, register_status,
                 reset, last_ping, session, delivered, sess, script, now, mid,
                 ident, spawnVars, fdops, local, cli, rpc, lan>>

\* select() reports the socket readable.
Readable == wire # <<>> \/ peerClosed

\* One iteration of Listen's loop.  ev: "idle" (select timed out: nothing
\* to read), "read" (Recv, with sock.recv returning n bytes, none at end of
\* stream) or "error" (sock.recv raises socket.error).
ListenRecv(M, ev, r, fop) ==
  IF ev = "idle" THEN M
  ELSE IF ev = "error" THEN Raise(M, "socket.error")
  ELSE IF r.data = <<>> THEN Raise(M, "break")
  ELSE ParseMessage([M EXCEPT !.buf = r.buf], r.data, M.st # SUCCESS, fop)

ListenPing(M) ==
  IF Ok(M) /\ mode = "AGENT" /\ M.t - M.lp > PING_INTERVAL THEN Ping(M) ELSE M

ListenScan(M, fop) == IF Ok(M) THEN ScanForTimeoutRequests(M, fop) ELSE M

\* Listen without the test of the reset flag at the end of an iteration.
ListenNeverChecksReset(M) == M

ListenCheckReset(M) == IF Ok(M) /\ M.rst THEN Raise(M, "break") ELSE M

ListenDownload(M) == IF Ok(M) /\ M.dq # <<>> THEN InitiateDownload(M) ELSE M

ListenBody(M0, ev, n, fop) ==
  ListenCheckReset(
    ListenDownload(
      ListenScan(
        ListenPing(
          ListenRecv(M0, ev, Recv(M0.buf, wire, BUFSIZE, n), fop)), fop)))

\* How an iteration of Listen ends: the loop goes on, or it is left by
\* break, by a session handler that never returns, or by an exception.
ListenEnd(M, ev, n) ==
  /\ M.rid <= MaxRid + 1
  /\ Commit(M)
  /\ wire' = IF ev = "read" THEN Recv(buf, wire, BUFSIZE, n).wire ELSE wire
  /\ CASE M.raised = "none" ->
            pc' = "Listen" /\ cont' = cont /\ err' = err /\ sock' = sock
       [] M.raised = "break" ->
            pc' = "Reset" /\ cont' = "ListenBreak" /\ err' = err
            /\ sock' = sock
       [] M.raised = "session" ->
            pc' = "Session" /\ cont' = cont /\ err' = err /\ sock' = sock
       [] M.raised = "os._exit" ->
            pc' = "Exited" /\ cont' = cont /\ err' = err /\ sock' = "closed"
       [] M.raised = "SystemExit" ->
            pc' = "Reset" /\ cont' = "SysExit" /\ err' = err /\ sock' = sock
       [] OTHER ->
            /\ pc' = "Reset"
            /\ cont' = "ListenRaise"
            /\ err' = CASE M.raised = "socket.error" -> "Connection dropped"
                        [] M.raised = "PingTimeoutError" -> "Connection timeout"
                        [] OTHER -> M.raised
            /\ sock' = sock

ListenTick(ev, n, sendOk, localOk) ==
  /\ pc = "Listen"
  /\ ev \in {"read", "error"} <=> Readable
  /\ ListenEnd(ListenBody(Fields(sendOk, localOk), ev, n, file_op), ev, n)
  /\ UNCHANGED <<mode, file_op, overlord_addrs, idx, conns, peerClosed, sends,
                 script, now, idVars>>

(***************************************************************************)
(* The session handlers, once they own the socket.                         *)
(***************************************************************************)
\* _BLOCK_SIZE is half of _BUFSIZE.
BLOCK_SIZE == BUFSIZE \div 2

ReadingSessions == {"SpawnTTYServer", "SpawnShellServer", "StartUploadServer",
                    "SpawnPortForwardServer"}

\* The session has read the end of the stream: its last read is empty.
EofRead == Len(sess) >= 2 /\ sess[Len(sess)] = <<>>

\* One self._sock.Recv of the session's loop.  On end of stream the shell,
\* upload and forward handlers leave their loop, close and exit; the
\* terminal handler hands the empty read to _ProcessBuffer and goes on.
\* In the shell handler ret.index(_STDIN_CLOSED * 2) looks for a str in
\* bytes: the TypeError ends the session at the first read that has data.
SessionRead(n) ==
  /\ pc = "Session"
  /\ session \in ReadingSessions
  /\ Readable
  /\ LET size == IF session = "StartUploadServer" THEN BLOCK_SIZE ELSE BUFSIZE
         r == Recv(buf, wire, size, n)
     IN /\ buf' = r.buf
        /\ sess' = IF r.data = <<>> /\ EofRead THEN sess
                   ELSE Append(sess, r.data)
        /\ fdops' = fdops \o SessionOps(session, r.data, FALSE)
        /\ IF \/ r.data = <<>> /\ session # "SpawnTTYServer"
              \/ r.data # <<>> /\ session = "SpawnShellServer"
             THEN pc' = "Exited" /\ sock' = "closed" /\ wire' = <<>>
             ELSE pc' = pc /\ sock' = sock /\ wire' = r.wire
  /\ UNCHANGED <<mode, file_op, overlord_addrs, cont, err, idx,
                 register_status, reset, requests, last_ping, nextRid,
                 session, issued, delivered, sent, parsed, dispatched, conns,
                 peerClosed, sends, script, now, idVars, spawnVars, local, cli, rpc, lan>>

\* The session ends on its local side (the pty or the command is gone, the
\* file is sent, an exception): the finally clause closes the socket and the
\* process exits.
SessionEnd ==
  /\ pc = "Session"
  /\ pc' = "Exited"
  /\ sock' = "closed"
  /\ wire' = <<>>
  /\ UNCHANGED <<mode, file_op, overlord_addrs, cont, err, idx, buf,
                 register_status, reset, requests, last_ping, nextRid,
                 session, issued, delivered, sent, parsed, dispatched, sess,
                 conns, peerClosed, sends, script, now>>
  /\ UNCHANGED <<idVars, spawnVars, fdops, local, cli, rpc, lan>>

(***************************************************************************)
(* The shell session: the command and the loop that forwards its output.   *)
(***************************************************************************)
\* What no step of the command or of the forwarding loop changes.
UnchangedByLocal ==
  UNCHANGED <<mode, file_op, overlord_addrs, cont, err, idx, buf,
              register_status, reset, requests, last_ping, nextRid, session,
              issued, delivered, sent, parsed, dispatched, sess, conns,
              peerClosed, sends, script, now, idVars, spawnVars, fdops,
              cli, lan, rpc>>

\* The command (Popen, shell=True) writes the next byte of its output to
\* its stdout or stderr pipe.
CmdWrite ==
  /\ pc = "Session"
  /\ session = "SpawnShellServer"
  /\ ~local.exited
  /\ local.left # <<>>
  /\ local' = [local EXCEPT
                 !.left = Tail(@),
                 !.out = IF Head(local.left).fd = "out"
                           THEN Append(@, Head(local.left)) ELSE @,
                 !.errp = IF Head(local.left).fd = "err"
                            THEN Append(@, Head(local.left)) ELSE @]
  /\ UNCHANGED <<pc, sock, wire>>
  /\ UnchangedByLocal

\* The command exits, having written its output.
CmdExit ==
  /\ pc = "Session"
  /\ session = "SpawnShellServer"
  /\ ~local.exited
  /\ local.left = <<>>
  /\ local' = [local EXCEPT !.exited = TRUE]
  /\ UNCHANGED <<pc, sock, wire>>
  /\ UnchangedByLocal

\* SpawnShellServer's select: it returns when a pipe is readable (it holds
\* bytes or is at end of file), with all the pipes that are.
Ready ==
  {fd \in {"out", "err"} :
     \/ local.exited
     \/ (IF fd = "out" THEN local.out ELSE local.errp) # <<>>}

ShellSelect ==
  /\ pc = "Session"
  /\ session = "SpawnShellServer"
  /\ local.at = "select"
  /\ Ready # {}
  /\ local' = [local EXCEPT !.at = "serve", !.rd = Ready]
  /\ UNCHANGED <<pc, sock, wire>>
  /\ UnchangedByLocal

\* SpawnShellServer's loop from select's return to the sends: each pipe of
\* rd is read once, at most _BUFSIZE bytes, and what was read is sent.  A
\* send that raises ends the session.
ShellServe(sendOk) ==
  /\ pc = "Session"
  /\ session = "SpawnShellServer"
  /\ local.at = "serve"
  /\ IF sendOk
       THEN /\ local' = [local EXCEPT
                          !.at = "poll",
                          !.out = IF "out" \in local.rd THEN Drop(@, BUFSIZE)
                                  ELSE @,
                          !.errp = IF "err" \in local.rd THEN Drop(@, BUFSIZE)
                                   ELSE @,
                          !.tosock = @ \o (IF "out" \in local.rd
                                             THEN Take(local.out, BUFSIZE)
                                             ELSE <<>>)
                                       \o (IF "err" \in local.rd
                                             THEN Take(local.errp, BUFSIZE)
                                             ELSE <<>>)]
            /\ UNCHANGED <<pc, sock, wire>>
       ELSE /\ pc' = "Exited"
            /\ sock' = "closed"
            /\ wire' = <<>>
            /\ local' = local
  /\ UnchangedByLocal

\* SpawnShellServer's loop from p.poll() on: the loop is left when the
\* command has exited; the finally clause closes the socket and the
\* process exits.
ShellPoll ==
  /\ pc = "Session"
  /\ session = "SpawnShellServer"
  /\ local.at = "poll"
  /\ IF local.exited
       THEN pc' = "Exited" /\ sock' = "closed" /\ wire' = <<>> /\ local' = local
       ELSE /\ local' = [local EXCEPT !.at = "select"]
            /\ UNCHANGED <<pc, sock, wire>>
  /\ UnchangedByLocal

(***************************************************************************)
(* The forward session: the target and the branch of the loop that reads   *)
(* it (the branch that reads the operator's socket is SessionRead).        *)
(***************************************************************************)
\* The target sends the next byte it has to send.
TargetWrite ==
  /\ pc = "Session"
  /\ session = "SpawnPortForwardServer"
  /\ ~local.exited
  /\ local.left # <<>>
  /\ local' = [local EXCEPT !.left = Tail(@),
                            !.out = Append(@, Head(local.left))]
  /\ UNCHANGED <<pc, sock, wire>>
  /\ UnchangedByLocal

\* The target closes the connection.
TargetClose ==
  /\ pc = "Session"
  /\ session = "SpawnPortForwardServer"
  /\ ~local.exited
  /\ local' = [local EXCEPT !.exited = TRUE]
  /\ UNCHANGED <<pc, sock, wire>>
  /\ UnchangedByLocal

\* SpawnPortForwardServer's loop when select reports src_sock: what
\* recv(_BUFSIZE) returns is sent to the operator; on end of stream
\* (recv returns b'') the loop continues.  A send that raises ends the
\* session.
ForwardTarget(sendOk) ==
  /\ pc = "Session"
  /\ session = "SpawnPortForwardServer"
  /\ local.out # <<>> \/ local.exited
  /\ IF local.out = <<>>
       THEN /\ local' = [local EXCEPT !.eof = TRUE]
            /\ UNCHANGED <<pc, sock, wire>>
       ELSE IF sendOk
         THEN /\ local' = [local EXCEPT !.out = Drop(@, BUFSIZE),
                                        !.tosock = @ \o Take(local.out, BUFSIZE)]
              /\ UNCHANGED <<pc, sock, wire>>
         ELSE /\ pc' = "Exited"
              /\ sock' = "closed"
              /\ wire' = <<>>
              /\ local' = local
  /\ UnchangedByLocal

(***************************************************************************)
(* The candidate list: main, Start's queue and ScanServer.  An address is  *)
(* a pair <<host, port>>.                                                  *)
(***************************************************************************)
DEFAULT_HTTP_PORT == 80
DEFAULT_HTTPS_PORT == 443
LOOPBACK == "127.0.0.1"

\* main: the addresses of the command line, in order; an argument is
\* <<host>> (no ':' in it) or <<host, port>>.
RECURSIVE ArgAddrs(_)
ArgAddrs(args) ==
  IF args = <<>> THEN <<>>
  ELSE (IF Len(Head(args)) = 1
          THEN <<<<Head(args)[1], DEFAULT_HTTPS_PORT>>,
                 <<Head(args)[1], DEFAULT_HTTP_PORT>>>>
          ELSE <<Head(args)>>)
       \o ArgAddrs(Tail(args))

\* main: the list given to Ghost.
MainAddrs(args) ==
  ArgAddrs(args) \o <<<<LOOPBACK, DEFAULT_HTTPS_PORT>>,
                      <<LOOPBACK, DEFAULT_HTTP_PORT>>>>

\* "if addr not in self._overlord_addrs: self._overlord_addrs.append(addr)",
\* for the addresses of addrs in order.
RECURSIVE AppendNew(_, _)
AppendNew(list, addrs) ==
  IF addrs = <<>> THEN list
  ELSE AppendNew(IF \E i \in DOMAIN list : list[i] = Head(addrs) THEN list
                 ELSE Append(list, Head(addrs)),
                 Tail(addrs))

\* What the actions on the candidate list leave alone.
UnchangedByAddrs ==
  UNCHANGED <<mode, file_op, pc, cont, err, idx, sock, buf, register_status,
              reset, requests, last_ping, nextRid, session, issued, delivered,
              sent, parsed, dispatched, sess, conns, envVars, idVars,
              spawnVars, fdops, local, cli, rpc, lan>>

\* Start: an address the LAN discovery thread put in the queue.
QueueGet(addr) ==
  /\ pc = "Start"
  /\ mode = "AGENT"
  /\ overlord_addrs' = AppendNew(overlord_addrs, <<addr>>)
  /\ UnchangedByAddrs

\* Ghost.ScanServer: hosts is what GetGateWayIP returns followed by what
\* GetFactoryServerIP returns.
RECURSIVE HostAddrs(_)
HostAddrs(hosts) ==
  IF hosts = <<>> THEN <<>>
  ELSE <<<<Head(hosts), DEFAULT_HTTPS_PORT>>, <<Head(hosts), DEFAULT_HTTP_PORT>>>>
       \o HostAddrs(Tail(hosts))

ScanServer(hosts) ==
  /\ pc = "Start"
  /\ overlord_addrs' = AppendNew(overlord_addrs, HostAddrs(hosts))
  /\ UnchangedByAddrs

(***************************************************************************)
(* The local-IPC thread.                                                   *)
(***************************************************************************)
\* Ghost.AddToDownloadQueue, called by "ghost --download" from a terminal
\* whose tty name is registered.
AddToDownloadQueue(ttyname) ==
  /\ mode = "AGENT"
  /\ pc # "Exited"
  /\ Len(download_queue) < MaxQueue
  /\ Len(download_queue) + Len(children) < MaxChildren
  /\ download_queue' = Append(download_queue, [ttyname |-> ttyname,
                                                filename |-> "f"])
  /\ rpc' = [rpc EXCEPT !.queued =
               Append(@, [ttyname |-> ttyname,
                          known |-> ttyname \in DOMAIN ttyname_to_sid])]
  /\ UNCHANGED <<mode, file_op, overlord_addrs, pc, cont, err, idx, sock, buf,
                 register_status, reset, requests, last_ping, nextRid, session,
                 issued, delivered, sent, parsed, dispatched, sess, conns,
                 connected_addr, children, fdops, local, cli, lan>>
  /\ UNCHANGED <<envVars, idVars>>

\* What the RPC calls below leave alone.
UnchangedByRpc ==
  UNCHANGED <<mode, file_op, overlord_addrs, pc, cont, err, idx, sock, buf,
              register_status, reset, requests, last_ping, nextRid, session,
              issued, delivered, sent, parsed, dispatched, sess, conns,
              envVars, idVars, spawnVars, fdops, local, cli, lan>>

\* Ghost.RegisterTTY, called by a terminal child through the RPC server.
RegisterTTY(session_id, ttyname) ==
  /\ mode = "AGENT"
  /\ pc # "Exited"
  /\ ttyname \notin DOMAIN rpc.ttyname_to_sid
  /\ rpc' = [rpc EXCEPT !.ttyname_to_sid = Put(@, ttyname, session_id)]
  /\ UnchangedByRpc

\* Ghost.RegisterSession
RegisterSession(session_id, process_id) ==
  /\ mode = "AGENT"
  /\ pc # "Exited"
  /\ session_id \notin DOMAIN rpc.terminal_sid_to_pid
  /\ rpc' = [rpc EXCEPT !.terminal_sid_to_pid = Put(@, session_id, process_id)]
  /\ UnchangedByRpc

\* Ghost.Reconnect; the RPC server runs in the AGENT only.
Reconnect ==
  /\ mode = "AGENT"
  /\ pc # "Exited"
  /\ ~reset
  /\ reset' = TRUE
  /\ UNCHANGED <<mode, file_op, overlord_addrs, pc, cont, err, idx, sock, buf,
                 register_status, requests, last_ping, nextRid, session,
                 issued, delivered, sent, parsed, dispatched, sess, conns>>
  /\ UNCHANGED envVars
  /\ UNCHANGED <<idVars, spawnVars, fdops, local, cli, rpc, lan>>

(***************************************************************************)
(* The environment: the server and the clock.                              *)
(***************************************************************************)
Response(rid, status) == (("rid" :> rid) @@ ("status" :> status))
Request(name) ==
  (("rid" :> "q") @@ ("name" :> name) @@ ("payload" :> "{}"))
Frame(msg) == JsonDumps(msg) \o SEPARATOR
RAW == Sym("raw", "a")

\* What the server may write on the connection: a response to a request it
\* has received (also a second time; to register also a refusal),
\* clear_to_download, or, to a session child, a byte of the operator's stream.
ServerMessages ==
  {Frame(Response(sent[i].rid, SUCCESS)) : i \in DOMAIN sent}
  \cup {Frame(Response(sent[i].rid, FAILED)) :
          i \in {j \in DOMAIN sent : sent[j].name = "register"}}
  \cup {Frame(Request("clear_to_download"))}
  \cup (IF mode = "AGENT" THEN {} ELSE {<<RAW>>})

ServerSend(bytes) ==
  /\ sock = "open"
  /\ ~peerClosed
  /\ sends < MaxServerSends
  /\ wire' = wire \o bytes
  /\ sends' = sends + 1
  /\ UNCHANGED <<mode, file_op, overlord_addrs, pc, cont, err, idx, sock, buf,
                 register_status, reset, requests, last_ping, nextRid,
                 session, issued, delivered, sent, parsed, dispatched, sess,
                 conns, peerClosed, script, now>>
  /\ UNCHANGED <<idVars, spawnVars, fdops, local, cli, rpc, lan>>

ServerClose ==
  /\ sock = "open"
  /\ ~peerClosed
  /\ peerClosed' = TRUE
  /\ UNCHANGED <<mode, file_op, overlord_addrs, pc, cont, err, idx, sock, buf,
                 register_status, reset, requests, last_ping, nextRid,
                 session, issued, delivered, sent, parsed, dispatched, sess,
                 conns, wire, sends, script, now>>
  /\ UNCHANGED <<idVars, spawnVars, fdops, local, cli, rpc, lan>>

\* The clock is read in Listen (Ping, ScanForTimeoutRequests) and compared
\* with the time a request was sent: it advances while Listen runs.
Tick ==
  /\ now < T0 + MaxTime
  /\ pc = "Listen"
  /\ now' = now + 1
  /\ UNCHANGED <<mode, file_op, overlord_addrs, pc, cont, err, idx, sock, buf,
                 register_status, reset, requests, last_ping, nextRid,
                 session, issued, delivered, sent, parsed, dispatched, sess,
                 conns, wire, peerClosed, sends, script>>
  /\ UNCHANGED <<idVars, spawnVars, fdops, local, cli, rpc, lan>>

(***************************************************************************)
(* The specification: the process with a server that writes whole          *)
(* messages which one recv returns whole.                                  *)
(***************************************************************************)
\* What sock.recv may return of the wire: with split, any number of bytes;
\* without, whole messages (or all there is room for).
ReadChoices(w, b, size, split) ==
  IF Len(b) >= size \/ w = <<>> THEN {0}
  ELSE LET mx == Min(Len(w), size - Len(b)) IN
       {n \in 1..mx : \/ split
                      \/ n = mx
                      \/ (n >= 2 /\ w[n - 1] = CR /\ w[n] = LF)}

\* No scripted server: the server of ServerSend and ServerClose.
NoScript == [msgs |-> <<>>, tail |-> <<>>]

\* The state after Ghost.__init__, with the server's script sc, but for the
\* candidate list.
InitFields(sc) ==
  /\ mode \in Modes
  /\ file_op \in (IF mode = "FILE" THEN {"download", "upload"} ELSE {"None"})
  /\ pc = "Start"
  /\ cont = "Start"
  /\ err = "none"
  /\ idx = 1
  /\ sock = "None"
  /\ buf = <<>>
  /\ register_status = DISCONNECTED
  /\ reset = FALSE
  /\ requests = EmptyDict
  /\ last_ping = 0
  /\ nextRid = 1
  /\ session = "None"
  /\ now = T0
  /\ wire = <<>>
  /\ peerClosed = FALSE
  /\ conns = 0
  /\ sends = 0
  /\ script = sc
  /\ issued = EmptyDict
  /\ delivered = [r \in Rids |-> <<>>]
  /\ sent = <<>>
  /\ parsed = 0
  /\ dispatched = <<>>
  /\ sess = <<>>
  /\ connected_addr = "None"
  /\ download_queue = <<>>
  /\ children = <<>>
  /\ fdops = <<>>
  /\ cli = [cmd |-> "None"]
  /\ lan = [queue |-> <<>>, thread |-> "None"]
  /\ rpc = [ttyname_to_sid |-> EmptyDict, terminal_sid_to_pid |-> EmptyDict,
            queued |-> <<>>]

\* The state after Ghost.__init__: the AGENT is given two candidates, a
\* child the one address its parent is connected to.
InitState(sc) ==
  /\ InitFields(sc)
  /\ overlord_addrs = IF mode = "AGENT" THEN <<"a1", "a2">> ELSE <<"a1">>

\* A Linux machine with one network interface beside lo, no factory
\* toolkit and no readable DMI uuid.
PlainLinux ==
  [platform |-> "Linux", serial |-> "absent", device_id |-> "absent",
   product_uuid |-> "absent", macs |-> "m1"]

\* The identity after Ghost.__init__: m is the mid argument of the AGENT
\* (SpawnGhost gives every child RANDOM_MID), id the machine's sources.
Identity(m, id) ==
  /\ mid = IF mode = "AGENT" THEN m ELSE RANDOM_MID
  /\ ident = id
  /\ machine_id = IF mid = RANDOM_MID THEN Uuid4(0)
                  ELSE GetMachineID(mid, id, Uuid4(0))

\* The bytes of the file a FILE/download child was started for.
FileBytes ==
  <<[fd |-> "file", b |-> "f1"], [fd |-> "file", b |-> "f2"],
    [fd |-> "file", b |-> "f3"], [fd |-> "file", b |-> "f4"]>>

\* The local side of a session before it starts: `left` is what it is going
\* to produce (the output of the command, the bytes of the file, what the
\* forward target sends), nothing of which has been read or sent.
LocalSide(left) ==
  local = [all |-> left, left |-> left, out |-> <<>>, errp |-> <<>>,
           exited |-> FALSE, at |-> "select", rd |-> {}, eof |-> FALSE,
           tosock |-> <<>>]

FileOrNothing ==
  LocalSide(IF mode = "FILE" /\ file_op = "download" THEN FileBytes ELSE <<>>)

Init == InitState(NoScript) /\ Identity("None", PlainLinux) /\ FileOrNothing

Listen ==
  \E ev \in {"idle", "read", "error"} :
    \E n \in ReadChoices(wire, buf, BUFSIZE, FALSE) :
      \E sendOk \in (IF peerClosed THEN BOOLEAN ELSE {TRUE}) :
        \E localOk \in BOOLEAN :
          /\ ev = "error" => peerClosed
          /\ ListenTick(ev, n, sendOk, localOk)

Next ==
  \/ StartLoop
  \/ Try
  \/ ResetClose
  \/ ResetDone
  \/ Sleep
  \/ \E outcome \in {"refused", "ok", "sendfail"} : Connect(outcome, MaxConn)
  \/ Listen
  \/ \E n \in ReadChoices(wire, buf, BUFSIZE, FALSE) : SessionRead(n)
  \/ SessionEnd
  \/ Reconnect
  \/ \E bytes \in ServerMessages : ServerSend(bytes)
  \/ ServerClose
  \/ Tick

Spec == Init /\ [][Next]_vars

(***************************************************************************)
(* The byte-level specification: one connection, on which a scripted       *)
(* server writes a successful register response followed by messages (to   *)
(* the AGENT) or by raw bytes (to a session child), and every recv returns *)
(* any number of the bytes there are.  The clock stands still.             *)
(***************************************************************************)
\* Messages that follow the register response in a script.
MaxScript == 2

\* An item of a script: an object and its encoding, or a chunk that is not
\* the encoding of a request or response.
Good(obj) == [ok |-> TRUE, obj |-> obj, bytes |-> JsonDumps(obj)]
Bad(bytes) == [ok |-> FALSE, obj |-> EmptyDict, bytes |-> bytes]

\* A request whose encoding with the separator is longer than BUFSIZE.
LongRequest ==
  Request("x") @@ [k \in {"p1", "p2", "p3", "p4", "p5", "p6", "p7", "p8"} |-> "v"]

RAWb == Sym("raw", "b")
RAWc == Sym("raw", "c")

Alphabet ==
  {Good(Request("x")), Good(Response("z", SUCCESS)), Good(LongRequest),
   \* invalid JSON, an empty chunk, JSON texts that are not objects
   Bad(<<RAW>>), Bad(<<>>), Bad(<<Sym("lit", "123")>>), Bad(<<Sym("lit", "[]")>>),
   \* an object with neither name nor status, a request without payload
   Bad(JsonDumps("rid" :> "q")),
   Bad(JsonDumps(("rid" :> "q") @@ ("name" :> "x")))}

Bodies == UNION {[1..k -> Alphabet] : k \in 0..MaxScript}

Tails ==
  {<<>>, <<RAW>>, <<RAW, RAWb, RAWc>>, <<RAW, CR, LF, RAWb>>,
   Frame(Request("x")) \o <<RAWc>>}

RegisterOk == Good(Response(RidStr(1), SUCCESS))

\* What the operator's side sends to a terminal: the resize sequence
\* ESC [ 8 ; 2 ; 3 t before and after other characters, other CSI
\* sequences, and ESC [ followed by a character that ends no sequence.
Resize == <<ESC, Ch("["), Ch("8"), Ch(";"), Ch("2"), Ch(";"), Ch("3"), Ch("t")>>

TTYTails ==
  {Resize \o <<Ch("c")>>,
   <<Ch("a")>> \o Resize \o <<Ch("b")>>,
   <<ESC, Ch("["), Ch("2"), Ch("A"), Ch("b")>>,
   <<ESC, Ch("["), Ch("8"), Ch(";"), Ch("?"), Ch(";"), Ch("3"), Ch("t")>>,
   <<ESC, Ch("["), Ch(" "), ESC, Ch("["), Ch("A"), Ch("b")>>,
   <<ESC, Ch("["), Ch(" ")>> \o Resize \o <<Ch("c")>>}

Scripts(m) ==
  IF m = "AGENT"
    THEN {[msgs |-> <<RegisterOk>> \o b, tail |-> <<>>] : b \in Bodies}
    ELSE {[msgs |-> <<RegisterOk>>, tail |-> t] :
            t \in Tails \cup (IF m = "TERMINAL" THEN TTYTails ELSE {})}

RECURSIVE Join(_)
Join(msgs) ==
  IF msgs = <<>> THEN <<>>
  ELSE Head(msgs).bytes \o SEPARATOR \o Join(Tail(msgs))

InitFrame ==
  \E m \in Modes : \E sc \in Scripts(m) :
    InitState(sc) /\ mode = m /\ Identity("None", PlainLinux) /\ FileOrNothing

\* The scripted server writes all it has to say.
ServerWrite ==
  /\ sock = "open"
  /\ sends = 0
  /\ wire' = wire \o Join(script.msgs) \o script.tail
  /\ sends' = 1
  /\ UNCHANGED <<mode, file_op, overlord_addrs, pc, cont, err, idx, sock, buf,
                 register_status, reset, requests, last_ping, nextRid,
                 session, issued, delivered, sent, parsed, dispatched, sess,
                 conns, peerClosed, script, now>>
  /\ UNCHANGED <<idVars, spawnVars, fdops, local, cli, rpc, lan>>

ListenFrame ==
  \E ev \in {"idle", "read"} :
    \E n \in ReadChoices(wire, buf, BUFSIZE, TRUE) :
      ListenTick(ev, n, TRUE, TRUE)

SessionReadFrame ==
  \E n \in ReadChoices(wire, buf, BUFSIZE, TRUE) : SessionRead(n)

NextFrame ==
  \/ StartLoop
  \/ Try
  \/ ResetClose
  \/ ResetDone
  \/ Sleep
  \/ Connect("ok", 1)
  \/ ListenFrame
  \/ SessionReadFrame
  \/ ServerWrite

SpecFrame == InitFrame /\ [][NextFrame]_vars

(***************************************************************************)
(* The AGENT alone, with a control thread that keeps running: time.sleep   *)
(* returns, Reset returns, the loops of Start and Register go on.          *)
(***************************************************************************)
InitAgent == Init /\ mode = "AGENT"

NextAgent ==
  \/ StartLoop
  \/ Try
  \/ ResetClose
  \/ ResetDone
  \/ Sleep
  \/ \E outcome \in {"refused", "ok", "sendfail"} : Connect(outcome, MaxConn)
  \/ Listen
  \/ Reconnect
  \/ \E bytes \in ServerMessages : ServerSend(bytes)
  \/ ServerClose
  \/ Tick

Retry == StartLoop \/ Try \/ ResetClose \/ ResetDone \/ Sleep

SpecAgent == InitAgent /\ [][NextAgent]_vars /\ WF_vars(Retry)

(***************************************************************************)
(* The request registry.                                                   *)
(***************************************************************************)
\* C1: the handler of a request is invoked at most once: never with a
\* response and with None, and never twice with either.
C1_AtMostOnce == \A r \in Rids : Len(delivered[r]) <= 1

\* C1, its case: one request was answered and its handler invoked with the
\* response, another timed out and its handler was invoked with None, and a
\* second copy of the answer has been read since.
C1_Witness ==
  /\ \E r \in Rids : delivered[r] = <<SUCCESS>> /\ r \notin DOMAIN requests
  /\ \E r \in Rids : delivered[r] = <<"null">>
  /\ parsed >= 2

C3_NegativeTimeoutNotTracked ==
  /\ \A r \in DOMAIN requests : requests[r].timeout >= 0
  /\ \A r \in DOMAIN issued :
       issued[r].timeout < 0 => r \notin DOMAIN requests /\ delivered[r] = <<>>

\* C3, its case: clear_to_upload has been sent with timeout -1 while the
\* map was otherwise empty, and the upload session has read from the socket.
C3_Witness ==
  /\ \E r \in DOMAIN issued :
       issued[r].name = "clear_to_upload" /\ issued[r].timeout < 0
  /\ \E i \in DOMAIN sent : sent[i].name = "clear_to_upload"
  /\ requests = EmptyDict
  /\ session = "StartUploadServer"
  /\ Flatten(sess) # <<>>

(***************************************************************************)
(* Registration and the ping, in the AGENT.                                *)
(***************************************************************************)
RegisterErrors == {"Register: failed", "Register request timeout"}

\* Register is entered again from the top of Start's loop.
RegisterAgain == pc = "Try" /\ idx = 1

\* Listen was left by the exception e, and Start has not yet slept on it.
Failing(e) == cont = "ListenRaise" /\ err = e

\* C4: in the AGENT a register response with a status other than success,
\* or the time-out of the register request, ends Listen with the register
\* error and the status not success; the agent counts as registered only on
\* the success response to the register request of this connection; Reset
\* then closes the socket, empties the map and sets DISCONNECTED; and after
\* the sleep Register is entered again.
C4_RegisterFailureResets ==
  /\ [][\A r \in DOMAIN issued :
          (issued[r].name = "register" /\ delivered[r] = <<>>
           /\ delivered'[r] \in {<<FAILED>>, <<"null">>}) =>
            /\ pc' = "Reset"
            /\ cont' = "ListenRaise"
            /\ err' = (IF delivered'[r] = <<FAILED>> THEN "Register: failed"
                       ELSE "Register request timeout")
            /\ register_status' # SUCCESS]_vars
  /\ [](register_status = SUCCESS /\ pc \in {"Listen", "Reset"} =>
          sent # <<>> /\ sent[1].name = "register"
          /\ delivered[sent[1].rid] = <<SUCCESS>>)
  /\ [](\A e \in RegisterErrors :
          Failing(e) =>
            /\ pc \in {"Reset", "Reset2", "Sleep"}
            /\ register_status # SUCCESS
            /\ pc # "Reset" => sock = "None" /\ requests = EmptyDict
            /\ pc = "Sleep" => register_status = DISCONNECTED)
  /\ \A e \in RegisterErrors : (Failing(e) /\ pc = "Reset") ~> RegisterAgain

\* C4, its case: one register request was refused and another timed out, and
\* Register has been entered again after the second.
C4_Witness ==
  /\ RegisterAgain
  /\ err = "Register request timeout"
  /\ \E r \in DOMAIN issued :
       issued[r].name = "register" /\ delivered[r] = <<FAILED>>
  /\ \E r \in DOMAIN issued :
       issued[r].name = "register" /\ delivered[r] = <<"null">>

\* A request of the map whose timeout has passed.
Overdue == {r \in DOMAIN requests : now - requests[r].time > requests[r].timeout}

RegisterSucceeded ==
  /\ sent # <<>>
  /\ sent[1].name = "register"
  /\ delivered[sent[1].rid] = <<SUCCESS>>

\* The last object dispatched on this socket is the register response.
LastDispatchedIsRegister ==
  /\ dispatched # <<>>
  /\ sent # <<>>
  /\ "status" \in DOMAIN dispatched[Len(dispatched)]
  /\ "rid" \in DOMAIN dispatched[Len(dispatched)]
  /\ dispatched[Len(dispatched)]["rid"] = sent[1].rid

\* C5 as stated: in a child a session handler that reads the socket owns it
\* only if the register request was answered with success.
C5_SessionOnlyAfterSuccess ==
  (mode # "AGENT" /\ pc = "Session" /\ session \in ReadingSessions) =>
    RegisterSucceeded

\* C7 as stated: in a child, once register has succeeded, register is the
\* only JSON message sent on the socket and the register response the last
\* one parsed and dispatched.
C7_NoJsonAfterRegister ==
  (mode # "AGENT" /\ RegisterSucceeded) =>
    Len(sent) = 1 /\ LastDispatchedIsRegister

\* C7, amended: after a successful register TERMINAL, SHELL and FORWARD send
\* and parse no further JSON; FILE upload sends clear_to_upload and parses
\* nothing further; FILE download sends request_to_download and goes on
\* parsing; and in every mode nothing is sent or parsed once a session
\* handler owns the socket.
C7_NoJsonOnceSessionOwnsSocket ==
  /\ [](mode # "AGENT" /\ RegisterSucceeded =>
          /\ sent[1].name = "register"
          /\ Len(sent) <= (IF mode = "FILE" THEN 2 ELSE 1)
          /\ Len(sent) = 2 =>
               sent[2].name = (IF file_op = "upload" THEN "clear_to_upload"
                               ELSE "request_to_download")
          /\ file_op # "download" =>
               pc \in {"Session", "Exited", "Reset"} /\ LastDispatchedIsRegister)
  /\ [][session # "None" => UNCHANGED <<sent, parsed, dispatched>>]_vars

\* C7, its case: a download child has registered, sent request_to_download,
\* parsed clear_to_download after the register response, and the download
\* server has had the socket and sent the file.
C7_Witness ==
  /\ mode = "FILE"
  /\ file_op = "download"
  /\ RegisterSucceeded
  /\ Len(sent) = 2
  /\ sent[2].name = "request_to_download"
  /\ Len(dispatched) >= 2
  /\ "name" \in DOMAIN dispatched[Len(dispatched)]
  /\ session = "StartDownloadServer"
  /\ local.at = "sent"
  /\ pc = "Exited"

\* C6: once a session handler that reads the socket owns it, what it has
\* received, in order, followed by what is still on the socket, is exactly
\* what the server wrote after the register response; the head buffer was
\* taken first and is empty.
C6_HandoverLosesNothing ==
  (pc = "Session" /\ session \in ReadingSessions /\ sends = 1) =>
    /\ buf = <<>>
    /\ Flatten(sess) \o wire = script.tail

\* C6, its case: bytes that came with the register response were taken from
\* the head buffer, the rest was read from the socket, and all of it has
\* been delivered.
C6_Witness ==
  /\ pc = "Session"
  /\ session \in ReadingSessions
  /\ Len(sess) >= 2
  /\ sess[1] # <<>>
  /\ Len(script.tail) >= 3
  /\ Flatten(sess) = script.tail

(***************************************************************************)
(* The framed channel of the registered AGENT.                             *)
(***************************************************************************)
Expected == [i \in 1..Len(script.msgs) |-> script.msgs[i].obj]

AllOk == \A i \in 1..Len(script.msgs) : script.msgs[i].ok

IsPrefix(a, b) == Len(a) <= Len(b) /\ a = SubSeq(b, 1, Len(a))

\* Listen can read no further: the head buffer holds BUFSIZE bytes without a
\* separator, Recv returns them without reading the socket, and ParseMessage
\* puts them back.
NoProgress ==
  pc = "Listen" /\ Len(buf) >= BUFSIZE /\ Index(Take(buf, BUFSIZE)) = -1

\* C8 as stated, for a finite stream: what was dispatched is a prefix of the
\* objects encoded, Listen can always read on, and when everything has been
\* read and no whole message waits in the head buffer, every object was
\* dispatched.
C8_EveryMessageDispatched ==
  (mode = "AGENT" /\ AllOk /\ pc = "Listen") =>
    /\ IsPrefix(dispatched, Expected)
    /\ ~NoProgress
    /\ (sends = 1 /\ wire = <<>> /\ Index(buf) = -1) => dispatched = Expected

\* C9 as stated: whatever chunks the stream holds, the connection of the
\* AGENT stays open and registered once it is, and the well-formed messages
\* are dispatched in order.
C9_MalformedSkipped ==
  (mode = "AGENT" /\ conns = 1) =>
    /\ pc = "Listen"
    /\ sock = "open"
    /\ dispatched # <<>> => register_status = SUCCESS

(***************************************************************************)
(* The reset flag and the local-IPC call Reconnect.                        *)
(***************************************************************************)
\* Listen was left by break with the flag set and the server still there:
\* the break is the one of "if self._reset.is_set()".
LeftByFlag == pc = "Reset" /\ cont = "ListenBreak" /\ reset /\ ~peerClosed

MidArgs == {"None", "", "python", RANDOM_MID}

Idents ==
  {id \in [platform : {"Linux", "Darwin"}, serial : {"absent", "", "S1"},
           device_id : {"absent", "", "D1"},
           product_uuid : {"absent", "", "P1"},
           macs : {"absent", "", "m1"}] :
     id.platform = "Linux" => id.serial = "absent"}

InitMid ==
  \E m \in MidArgs : \E id \in Idents :
    InitState(NoScript) /\ Identity(m, id) /\ FileOrNothing

NextMid ==
  \/ StartLoop
  \/ Try
  \/ ResetClose
  \/ ResetDone
  \/ Sleep
  \/ \E outcome \in {"refused", "ok", "sendfail"} : Connect(outcome, MaxConn)
  \/ Listen
  \/ Reconnect
  \/ ServerClose

SpecMid == InitMid /\ [][NextMid]_vars

\* The mid of a register message sent.
RegisterMids ==
  {issued[r].args["mid"] : r \in {x \in DOMAIN issued : issued[x].name = "register"}}

\* C12 as stated: when a random machine id was asked for, the mid of every
\* register message is a generated UUID and never the marker.
C12_RandomMidIsUuid ==
  mid = RANDOM_MID => RegisterMids \subseteq {Uuid4(k) : k \in 0..MaxConn}

\* C13 as stated: the mid of a register message is never empty.
C13_MidNeverEmpty == "" \notin RegisterMids

\* C14 as stated: all the register messages of one process carry the same
\* mid.
C14_MidStable == Cardinality(RegisterMids) <= 1

(***************************************************************************)
(* The session spawner: the AGENT with a server that answers register and  *)
(* sends the commands that fork a child, and a local client that queues    *)
(* downloads, on one connection.  The clock stands still.                  *)
(***************************************************************************)
Command(name, text) ==
  (("rid" :> "q") @@ ("name" :> name) @@ ("payload" :> text))

SpawnCommands ==
  {Command("terminal", "{sid,tty_device}"), Command("terminal", "{sid}"),
   Command("shell", "{sid,command}"),
   Command("forward", "{sid,host,port}"), Command("forward", "{sid,port}"),
   Command("file_download", "{sid,filename}"),
   Command("file_download", "{sid,filename:missing}"),
   Command("file_upload", "{sid,filename}"),
   Command("file_upload", "{sid,filename:missing}"),
   Command("file_upload", "{sid,filename,check_only}")}

NextSpawn ==
  \/ StartLoop
  \/ Try
  \/ ResetClose
  \/ ResetDone
  \/ Sleep
  \/ Connect("ok", 1)
  \/ Listen
  \/ RegisterTTY("s1", "tty1")
  \/ ("tty1" \in DOMAIN ttyname_to_sid /\ AddToDownloadQueue("tty1"))
  \/ \E i \in {j \in DOMAIN sent : sent[j].name = "register"} :
       ServerSend(Frame(Response(sent[i].rid, SUCCESS)))
  \/ \E c \in SpawnCommands : ServerSend(Frame(c))

SpecSpawn == InitAgent /\ [][NextSpawn]_vars

\* The first connection, on which the register response was the first
\* message dispatched and every command dispatched since is one of names.
RegisteredThenOnly(names) ==
  /\ conns = 1
  /\ RegisterSucceeded
  /\ dispatched # <<>>
  /\ "status" \in DOMAIN dispatched[1]
  /\ \A i \in 2..Len(dispatched) :
       "name" \in DOMAIN dispatched[i] /\ dispatched[i]["name"] \in names

\* The commands dispatched, the responses sent, and the children forked for
\* commands (a child of the download queue has no sid).
Commands == Tail(dispatched)
Responses == SelectSeq(sent, LAMBDA m : m.name = "None")
Forked == SelectSeq(children, LAMBDA c : c.sid # "None")

ModeOf(name) ==
  CASE name = "terminal" -> "TERMINAL"
    [] name = "shell" -> "SHELL"
    [] name = "forward" -> "FORWARD"
    [] OTHER -> "FILE"

\* C15 as stated: every terminal, shell or forward command received by the
\* registered AGENT, whatever optional items its payload omits, has forked
\* one child of its mode and sid and was answered with one success response
\* echoing its rid, and no exception has left Listen.
C15_SpawnAndRespond ==
  RegisteredThenOnly({"terminal", "shell", "forward"}) =>
    /\ Len(Forked) = Len(Commands)
    /\ Len(Responses) = Len(Commands)
    /\ \A i \in 1..Len(Commands) :
         /\ Forked[i].mode = ModeOf(Commands[i]["name"])
         /\ Forked[i].sid = Payload(Commands[i]["payload"])["sid"]
         /\ Responses[i].rid = Commands[i]["rid"]
         /\ Responses[i].status = SUCCESS
    /\ Commands # <<>> => pc \in {"Listen", "Reset"} /\ cont # "ListenRaise"

\* C16 as stated: a child is forked with the one address of the connection
\* in progress, on which the agent is registered.
C16_ChildGetsCurrentServer ==
  [][\A i \in DOMAIN children' :
       i \notin DOMAIN children =>
         /\ children'[i].overlord_addrs = <<overlord_addrs[idx]>>
         /\ register_status' = SUCCESS]_vars

\* The commands that fork a FILE child: the file can be opened and the
\* command is no check_only.
ForksFile(c) ==
  /\ Payload(c["payload"])["filename"] # "missing"
  /\ "check_only" \notin DOMAIN Payload(c["payload"])

RECURSIVE SkipDigits(_, _)
SkipDigits(b, j) ==
  IF j + 1 <= Len(b) /\ b[j + 1] \in Digits THEN SkipDigits(b, j + 1) ELSE j

\* The complete resize sequence ESC [ 8 ; rows ; cols t at offset i of b:
\* the offset that follows it, -1 when there is none at i.
ResizeEnd(b, i) ==
  IF /\ i + 4 <= Len(b)
     /\ SubSeq(b, i + 1, i + 4) = <<ESC, Ch("["), Ch("8"), Ch(";")>>
     /\ SkipDigits(b, i + 4) > i + 4
     /\ SkipDigits(b, i + 4) + 1 <= Len(b)
     /\ b[SkipDigits(b, i + 4) + 1] = Ch(";")
     /\ SkipDigits(b, SkipDigits(b, i + 4) + 1) > SkipDigits(b, i + 4) + 1
     /\ SkipDigits(b, SkipDigits(b, i + 4) + 1) + 1 <= Len(b)
     /\ b[SkipDigits(b, SkipDigits(b, i + 4) + 1) + 1] = Ch("t")
    THEN SkipDigits(b, SkipDigits(b, i + 4) + 1) + 1
    ELSE -1

\* The bytes of b from offset i with every complete resize sequence removed.
RECURSIVE WithoutResizes(_, _)
WithoutResizes(b, i) ==
  IF i >= Len(b) THEN <<>>
  ELSE IF ResizeEnd(b, i) # -1 THEN WithoutResizes(b, ResizeEnd(b, i))
  ELSE <<b[i + 1]>> \o WithoutResizes(b, i + 1)

\* The <<rows, cols>> of the complete resize sequences of b from offset i.
RECURSIVE ResizesOf(_, _)
ResizesOf(b, i) ==
  IF i >= Len(b) THEN <<>>
  ELSE IF ResizeEnd(b, i) # -1
    THEN <<<<SubSeq(b, i + 5, SkipDigits(b, i + 4)),
             SubSeq(b, SkipDigits(b, i + 4) + 2, ResizeEnd(b, i) - 1)>>>>
         \o ResizesOf(b, ResizeEnd(b, i))
  ELSE ResizesOf(b, i + 1)

\* The bytes written to the pty and the window sizes set, in order.
RECURSIVE PtyBytes(_)
PtyBytes(ops) ==
  IF ops = <<>> THEN <<>>
  ELSE (IF Head(ops).op = "write" THEN Head(ops).data ELSE <<>>)
       \o PtyBytes(Tail(ops))

RECURSIVE Ioctls(_)
Ioctls(ops) ==
  IF ops = <<>> THEN <<>>
  ELSE (IF Head(ops).op = "ioctl" THEN <<Head(ops).data>> ELSE <<>>)
       \o Ioctls(Tail(ops))

\* No resize sequence of the stream lies across two reads.
RECURSIVE ReadByRead(_)
ReadByRead(reads) ==
  IF reads = <<>> THEN <<>>
  ELSE WithoutResizes(Head(reads), 0) \o ReadByRead(Tail(reads))

ResizesWhole == ReadByRead(sess) = WithoutResizes(Flatten(sess), 0)

\* C18: in a TERMINAL session that has read the operator's stream, with no
\* resize sequence cut by a read, the bytes written to the pty are the
\* stream without its complete resize sequences ESC [ 8 ; rows ; cols t, in
\* order, and the window sizes set are those of the sequences, one ioctl
\* each, in order.
C18_ScanConsumesOnlyResizes ==
  (session = "SpawnTTYServer" /\ sess # <<>>
     /\ Flatten(sess) = script.tail /\ ResizesWhole)
    => /\ PtyBytes(fdops) = WithoutResizes(script.tail, 0)
       /\ Ioctls(fdops) = ResizesOf(script.tail, 0)

(***************************************************************************)
(* C19: end of stream in a terminal session.                               *)
(***************************************************************************)
\* C19: once a TERMINAL session has read the end of the stream from its
\* socket, the loop has stopped: the socket is closed and the process has
\* exited.
C19_TerminalEndsOnEof ==
  (session = "SpawnTTYServer" /\ EofRead) => (pc = "Exited" /\ sock = "closed")

(***************************************************************************)
(* C20: the socket bytes of a shell session.                               *)
(***************************************************************************)
\* C20: in a SHELL session whose socket bytes hold no stdin-close sentinel,
\* the bytes written to the command's stdin are the bytes read from the
\* socket, unchanged.
C20_ShellStdinGetsSocketBytes ==
  (session = "SpawnShellServer" /\ sess # <<>>)
    => PtyBytes(fdops) = Flatten(sess)

(***************************************************************************)
(* C21: the output of the command of a SHELL session.  The server writes   *)
(* the register response and nothing else, and keeps the socket open.      *)
(***************************************************************************)
\* What the command writes: to stdout, to stderr, to both, or nothing.
O(fd, b) == [fd |-> fd, b |-> b]

Outputs ==
  {<<>>, <<O("out", "o1")>>, <<O("out", "o1"), O("out", "o2")>>,
   <<O("err", "e1")>>, <<O("out", "o1"), O("err", "e1")>>,
   <<O("err", "e1"), O("out", "o1"), O("out", "o2")>>}

InitShell ==
  /\ InitState([msgs |-> <<RegisterOk>>, tail |-> <<>>])
  /\ mode = "SHELL"
  /\ Identity("None", PlainLinux)
  /\ \E o \in Outputs : LocalSide(o)

NextShell ==
  \/ StartLoop
  \/ Try
  \/ ResetClose
  \/ ResetDone
  \/ Connect("ok", 1)
  \/ ListenFrame
  \/ ServerWrite
  \/ CmdWrite
  \/ CmdExit
  \/ ShellSelect
  \/ ShellServe(TRUE)
  \/ ShellPoll

SpecShell == InitShell /\ [][NextShell]_vars

\* The bytes of s that belong to fd.
RECURSIVE Of(_, _)
Of(s, fd) ==
  IF s = <<>> THEN <<>>
  ELSE (IF Head(s).fd = fd THEN <<Head(s)>> ELSE <<>>) \o Of(Tail(s), fd)

\* C21: when a SHELL session whose socket stayed open has ended, the bytes
\* sent to the socket are the bytes the command wrote to stdout, and those
\* it wrote to stderr, complete and in order.
C21_ShellOutputComplete ==
  (session = "SpawnShellServer" /\ pc = "Exited" /\ ~peerClosed)
    => /\ Of(local.tosock, "out") = Of(local.all, "out")
       /\ Of(local.tosock, "err") = Of(local.all, "err")

(***************************************************************************)
(* C22: the FILE/download child.                                           *)
(***************************************************************************)
\* A response to the register request of this socket has been dispatched.
RegisterAnswered ==
  /\ sent # <<>>
  /\ \E j \in DOMAIN dispatched :
       /\ "status" \in DOMAIN dispatched[j]
       /\ "rid" \in DOMAIN dispatched[j]
       /\ dispatched[j]["rid"] = sent[1].rid

\* The request `name` has been dispatched on this socket.
Received(name) ==
  \E j \in DOMAIN dispatched :
    "name" \in DOMAIN dispatched[j] /\ dispatched[j]["name"] = name

\* C22: a FILE/download child sends request_to_download only after the
\* response to its register request, sends no byte of the file before it
\* has received clear_to_download, and once StartDownloadServer has run with
\* a readable file and a working socket it has sent the bytes of the file in
\* order up to end of file, closed the socket and exited.
C22_DownloadChild ==
  (mode = "FILE" /\ file_op = "download") =>
    /\ (\E i \in DOMAIN sent : sent[i].name = "request_to_download")
         => RegisterAnswered
    /\ local.tosock # <<>> => Received("clear_to_download")
    /\ session = "StartDownloadServer" => (pc = "Exited" /\ sock = "closed")
    /\ local.at = "sent" => local.tosock = FileBytes

(***************************************************************************)
(* C23: the end of a FORWARD session.  The operator's side writes the      *)
(* register response and at most one byte, and may close; the target sends *)
(* what it has and may close.                                              *)
(***************************************************************************)
InitForward ==
  /\ \E t \in {<<>>, <<RAW>>} : InitState([msgs |-> <<RegisterOk>>, tail |-> t])
  /\ mode = "FORWARD"
  /\ Identity("None", PlainLinux)
  /\ \E o \in {<<>>, <<O("out", "t1")>>, <<O("out", "t1"), O("out", "t2")>>} :
       LocalSide(o)

NextForward ==
  \/ StartLoop
  \/ Try
  \/ ResetClose
  \/ ResetDone
  \/ Connect("ok", 1)
  \/ ListenFrame
  \/ ServerWrite
  \/ ServerClose
  \/ SessionReadFrame
  \/ TargetWrite
  \/ TargetClose
  \/ \E sendOk \in (IF peerClosed THEN BOOLEAN ELSE {TRUE}) : ForwardTarget(sendOk)

SpecForward == InitForward /\ [][NextForward]_vars

\* C23: once a FORWARD session has read the end of the stream, from the
\* operator's socket or from its target, the loop has stopped: the sockets
\* are closed and the process has exited.
C23_ForwardEndsWhenEitherSideCloses ==
  (session = "SpawnPortForwardServer" /\ (EofRead \/ local.eof))
    => (pc = "Exited" /\ sock = "closed")

(***************************************************************************)
(* C24: a child whose session cannot be set up.                            *)
(***************************************************************************)
\* The exit status of a process that has exited.  The session handlers end
\* in os._exit(0) whatever happened in them; Listen ends a child with
\* sys.exit(1), and so does InitiateFileOperation when os.stat fails: both
\* before any session handler was entered.
ExitStatus == IF session = "None" THEN 1 ELSE 0

\* The session handler was entered and could not open its local side (the
\* pty or tty device, the file, the connection to the target), or os.stat
\* failed in InitiateFileOperation.
SetupFailed ==
  \/ session \in ReadingSessions /\ sess = <<>>
  \/ session = "StartDownloadServer" /\ local.at = "OSError"
  \/ cont = "SysExit"

\* C24: a child that failed to set up its session has exited with a
\* non-zero status.
C24_SetupFailureExitsNonZero ==
  (mode # "AGENT" /\ pc = "Exited" /\ SetupFailed) => ExitStatus # 0

(***************************************************************************)
(* C25: the life of a child.                                               *)
(***************************************************************************)
\* C25: a child registers at most once and never reaches the retry sleep of
\* Start's loop: when its connection attempt fails or its connection ends,
\* it exits.
C25_ChildLivesOneConnection ==
  mode # "AGENT" => (conns <= 1 /\ pc # "Sleep")

(***************************************************************************)
(* C26: clear_to_download outside a FILE/download child.                   *)
(***************************************************************************)
\* C26: StartDownloadServer runs in a FILE/download child only, and the
\* AGENT never exits: a clear_to_download received in another mode closes
\* no socket and ends no process.
C26_ClearToDownloadOnlyInDownloadChild ==
  /\ session = "StartDownloadServer" => (mode = "FILE" /\ file_op = "download")
  /\ mode = "AGENT" => (pc # "Exited" /\ sock # "closed")

(***************************************************************************)
(* C27: the candidate list of an AGENT started by main, while Start takes  *)
(* addresses from the queue and scans for servers.                         *)
(***************************************************************************)
\* The arguments of the command line: up to two addresses, among them a
\* repeated one and the loopback address.
CmdArgs == {<<"h1">>, <<"h1", 443>>, <<"h2", 9000>>, <<LOOPBACK>>}

CmdLines == {<<>>} \cup {<<a>> : a \in CmdArgs}
              \cup {<<a, b>> : a \in CmdArgs, b \in CmdArgs}

InitAddrs ==
  /\ InitFields(NoScript)
  /\ mode = "AGENT"
  /\ Identity("None", PlainLinux)
  /\ FileOrNothing
  /\ \E args \in CmdLines : overlord_addrs = MainAddrs(args)

NextAddrs ==
  \/ \E addr \in {<<"h1", 443>>, <<"h3", 80>>} : QueueGet(addr)
  \/ \E hosts \in {<<>>, <<"g1">>, <<"g1", "h1">>, <<"g1", "g1">>} :
       ScanServer(hosts)

SpecAddrs == InitAddrs /\ [][NextAddrs]_vars

\* C27: the candidate list never holds the same (host, port) twice.
C27_NoDuplicateCandidate ==
  \A i, j \in DOMAIN overlord_addrs :
    i # j => overlord_addrs[i] # overlord_addrs[j]

(***************************************************************************)
(* ovl.py: the paths of os.path.  A path is the sequence of its            *)
(* components: the first is "/" when the path is absolute, a last          *)
(* component "" stands for a trailing slash, and "" alone is the empty     *)
(* string joined to a path.                                                *)
(***************************************************************************)
\* os.getcwd() of the CLI client.
Cwd == <<"/", "home">>

IsAbs(p) == p # <<>> /\ p[1] = "/"

\* os.path.basename: what follows the last slash.
Basename(p) == IF p = <<>> \/ p[Len(p)] = "/" THEN "" ELSE p[Len(p)]

RECURSIVE StripSlashes(_)
StripSlashes(p) ==
  IF p # <<>> /\ p[Len(p)] = "" THEN StripSlashes(SubSeq(p, 1, Len(p) - 1))
  ELSE p

\* os.path.dirname: what precedes the last slash, without trailing slashes.
Dirname(p) ==
  IF p = <<>> \/ p = <<"/">> THEN p
  ELSE StripSlashes(SubSeq(p, 1, Len(p) - 1))

\* os.path.normpath: "" and "." components go, ".." removes the component
\* before it (at the root it is dropped), the empty path is ".".
RECURSIVE NormInto(_, _)
NormInto(acc, p) ==
  IF p = <<>> THEN (IF acc = <<>> THEN <<".">> ELSE acc)
  ELSE IF Head(p) \in {"", "."} THEN NormInto(acc, Tail(p))
  ELSE IF Head(p) # ".." THEN NormInto(Append(acc, Head(p)), Tail(p))
  ELSE IF acc = <<>> \/ acc[Len(acc)] = ".."
         THEN NormInto(Append(acc, ".."), Tail(p))
  ELSE IF acc[Len(acc)] = "/" THEN NormInto(acc, Tail(p))
  ELSE NormInto(SubSeq(acc, 1, Len(acc) - 1), Tail(p))

NormPath(p) == NormInto(<<>>, p)

\* os.path.join of two paths.
PathJoin(a, b) ==
  IF IsAbs(b) THEN b
  ELSE IF a = <<>> THEN b
  ELSE (IF a[Len(a)] = "" THEN SubSeq(a, 1, Len(a) - 1) ELSE a) \o b

AbsPath(p) == NormPath(IF IsAbs(p) THEN p ELSE PathJoin(Cwd, p))

RECURSIVE CommonPrefix(_, _)
CommonPrefix(p, q) ==
  IF p = <<>> \/ q = <<>> \/ Head(p) # Head(q) THEN <<>>
  ELSE <<Head(p)>> \o CommonPrefix(Tail(p), Tail(q))

\* os.path.commonpath of a non-empty list of absolute paths.
RECURSIVE CommonPath(_)
CommonPath(paths) ==
  IF Len(paths) = 1 THEN NormPath(paths[1])
  ELSE CommonPrefix(NormPath(paths[1]), CommonPath(Tail(paths)))

\* os.path.relpath(p, start).
RelPath(p, start) ==
  LET a == AbsPath(p)
      s == AbsPath(start)
      i == Len(CommonPrefix(a, s))
      r == [k \in 1..(Len(s) - i) |-> ".."] \o SubSeq(a, i + 1, Len(a))
  IN  IF r = <<>> THEN <<".">> ELSE r

(***************************************************************************)
(* ovl.py: the two file systems.  Both machines hold the same three        *)
(* things: the directory some_dir (a file a, a directory d with a file b,  *)
(* a symbolic link l to d), the empty directory empty and the file f; the  *)
(* agent's machine has the file g as well.                                 *)
(***************************************************************************)
Remote == <<"/", "remote">>

\* What os.walk yields for some_dir: one step per directory, top down.
SomeDir ==
  <<[root |-> <<>>, dirs |-> <<"d", "l">>, files |-> <<"a">>],
    [root |-> <<"d">>, dirs |-> <<>>, files |-> <<"b">>]>>

Emptydir == <<[root |-> <<>>, dirs |-> <<>>, files |-> <<>>]>>

\* The symbolic links, relative to their tree.
Links == {<<"l">>}

\* What the path p, absolute and normalised, is under the directory `top`
\* of its machine: "dir", "file" or "absent", and for a directory its walk.
Kind(top, p) ==
  IF p \in {<<"/">>, top, top \o <<"some_dir">>, top \o <<"empty">>} THEN "dir"
  ELSE IF p = top \o <<"f">> \/ (top = Remote /\ p = top \o <<"g">>)
    THEN "file"
  ELSE "absent"

WalkOf(top, p) == IF p = top \o <<"some_dir">> THEN SomeDir ELSE Emptydir

\* The entries of one step of the walk, as FileEntry or _Fstat make them:
\* a symbolic link is never a directory.
StepEntries(path, step, names, isdir) ==
  [i \in DOMAIN names |->
     [path   |-> PathJoin(PathJoin(path, step.root), <<names[i]>>),
      is_dir |-> isdir /\ (step.root \o <<names[i]>>) \notin Links,
      is_symlink |-> (step.root \o <<names[i]>>) \in Links]]

\* _LocalLsTree of a directory: per step the directories, then the files.
RECURSIVE LocalWalk(_, _)
LocalWalk(path, walk) ==
  IF walk = <<>> THEN <<>>
  ELSE StepEntries(path, Head(walk), Head(walk).dirs, TRUE)
       \o StepEntries(path, Head(walk), Head(walk).files, FALSE)
       \o LocalWalk(path, Tail(walk))

LocalLsTree(path) == LocalWalk(path, WalkOf(Cwd, NormPath(path)))

\* os.path.exists / isdir / isfile of the CLI client's machine: a file
\* named with a trailing slash does not exist.
LocalKind(p) ==
  LET k == Kind(Cwd, AbsPath(p))
  IN  IF k = "file" /\ p[Len(p)] = "" THEN "absent" ELSE k

\* ghost.py _Fstat of the agent's machine, as ovl.py _Fstat returns it.
Fstat(p) ==
  [exists |-> Kind(Remote, NormPath(p)) # "absent",
   is_dir |-> Kind(Remote, NormPath(p)) = "dir"]

(***************************************************************************)
(* ovl.py: OverlordCliClient.Push.                                         *)
(***************************************************************************)
\* What the ghost's actions leave alone is all the CLI client changes.
UnchangedByCli ==
  UNCHANGED <<mode, file_op, overlord_addrs, pc, cont, err, idx, sock, buf,
              register_status, reset, requests, last_ping, nextRid, session,
              issued, delivered, sent, parsed, dispatched, sess, conns,
              envVars, idVars, spawnVars, fdops, local, lan, rpc>>

\* The command line: "ovl push SOURCE... DESTINATION" or "ovl pull SOURCE
\* DESTINATION".
Invocation(cmd, srcs, dst) ==
  [cmd |-> cmd, srcs |-> srcs, dst |-> dst, at |-> "check", s |-> 1,
   todo |-> <<>>, ops |-> <<>>]

\* A _Push that lays the tree out under dst whether dst exists or not.
PushDestFlat(dst, base_dir_name, rel_path, dst_exists) ==
  PathJoin(dst, rel_path)

\* _Push: the destination of one entry of the tree.
PushDest(dst, base_dir_name, rel_path, dst_exists) ==
  IF dst_exists THEN PathJoin(PathJoin(dst, <<base_dir_name>>), rel_path)
  ELSE PathJoin(dst, rel_path)

\* _Push: the entries of the directory src with their destinations.
PushSpec(src, dst, dst_exists) ==
  LET entries == LocalLsTree(src)
  IN  [i \in DOMAIN entries |->
         [entry |-> entries[i],
          dst   |-> PushDest(dst, Basename(src), RelPath(entries[i].path, src),
                             dst_exists)]]

PushStart(srcs, dst) ==
  /\ cli.cmd = "None"
  /\ cli' = Invocation("push", srcs, dst)
  /\ UnchangedByCli

\* Push: with several sources the destination must be a directory.
PushCheck(ok) ==
  /\ cli.cmd = "push"
  /\ cli.at = "check"
  /\ cli' = [cli EXCEPT !.at =
       IF Len(cli.srcs) > 1
          /\ (~ok \/ ~Fstat(cli.dst).exists \/ ~Fstat(cli.dst).is_dir)
         THEN "raised" ELSE "src"]
  /\ UnchangedByCli

\* Push: the next source (ok: the fstat call succeeds; readable: os.access).
PushSrc(ok, readable) ==
  /\ cli.cmd = "push"
  /\ cli.at = "src"
  /\ IF cli.s > Len(cli.srcs) THEN cli' = [cli EXCEPT !.at = "done"]
     ELSE LET src == cli.srcs[cli.s]
              st  == Fstat(cli.dst)
          IN  IF LocalKind(src) = "absent" \/ ~readable
                THEN cli' = [cli EXCEPT !.at = "raised"]
              ELSE IF LocalKind(src) = "file"
                THEN cli' = [cli EXCEPT
                       !.ops = Append(@, [op |-> "_PushSingle", s |-> cli.s,
                                          src |-> src, dst |-> cli.dst]),
                       !.s = @ + 1]
              ELSE IF ~ok \/ (st.exists /\ ~st.is_dir)
                THEN cli' = [cli EXCEPT !.at = "raised"]
              ELSE cli' = [cli EXCEPT
                     !.at = "entries",
                     !.todo = PushSpec(AbsPath(src), cli.dst, st.exists)]
  /\ UnchangedByCli

\* _Push: one turn of "for entry in entries" (ok: the request succeeds).
PushEntry(ok) ==
  /\ cli.cmd = "push"
  /\ cli.at = "entries"
  /\ IF cli.todo = <<>> THEN cli' = [cli EXCEPT !.at = "src", !.s = @ + 1]
     ELSE LET e == Head(cli.todo)
          IN  cli' = [cli EXCEPT
                !.ops = Append(@, [op |-> IF e.entry.is_dir THEN "_Mkdir"
                                          ELSE "_PushSingle",
                                   s |-> cli.s,
                                   src |-> e.entry.path, dst |-> e.dst]),
                !.todo = Tail(@),
                !.at = IF ok THEN @ ELSE "raised"]
  /\ UnchangedByCli

(***************************************************************************)
(* C28.  The CLI client pushes sources of its own machine (some_dir, by    *)
(* three spellings, empty, f and a name that does not exist) to a          *)
(* destination of the agent's machine that is a directory, a file or       *)
(* absent.                                                                 *)
(***************************************************************************)
PushSources ==
  {<<"some_dir">>, <<"/", "home", "some_dir">>, <<"some_dir", "">>,
   <<"empty">>, <<"f">>, <<"none">>}

PushTargets ==
  {<<"/", "remote", "empty">>, <<"/", "remote", "empty", "">>,
   <<"/", "remote", "f">>, <<"/", "remote", "new">>}

NextPush ==
  \/ \E s1 \in PushSources, dst \in PushTargets : PushStart(<<s1>>, dst)
  \/ \E s1 \in PushSources, s2 \in PushSources, dst \in PushTargets :
       PushStart(<<s1, s2>>, dst)
  \/ \E ok \in BOOLEAN : PushCheck(ok)
  \/ \E ok \in BOOLEAN, readable \in BOOLEAN : PushSrc(ok, readable)
  \/ \E ok \in BOOLEAN : PushEntry(ok)

SpecPush == InitAgent /\ [][NextPush]_vars

\* The regular files, and the directories and links, of a walk.
FilesOf(walk) ==
  UNION {{walk[i].root \o <<walk[i].files[j]>> : j \in DOMAIN walk[i].files} :
           i \in DOMAIN walk}

DirsOf(walk) ==
  UNION {{walk[i].root \o <<walk[i].dirs[j]>> : j \in DOMAIN walk[i].dirs} :
           i \in DOMAIN walk}

\* The s-th source of the command is a directory.
SrcIsDir(s) == LocalKind(cli.srcs[s]) = "dir"

\* Where the tree of the s-th source belongs: under dst/<its name> when
\* dst is a directory of the agent's machine, under dst otherwise.
PushRoot(s) ==
  LET src == AbsPath(cli.srcs[s])
  IN  IF Fstat(cli.dst).is_dir THEN NormPath(cli.dst) \o <<src[Len(src)]>>
      ELSE NormPath(cli.dst)

\* C28: Push of a local directory src to remote dst: every request made for
\* the tree is for one of its entries src/<rel> and goes to
\* dst/<basename of src>/<rel> when dst is a directory and to dst/<rel> when
\* dst does not exist; it is a mkdir exactly when the entry is a directory
\* and a single-file push otherwise; no request is made when dst exists and
\* is not a directory, and the command does not complete; when the command
\* completes every regular file of the tree has been pushed.
C28_PushLayout ==
  cli.cmd = "push" =>
    /\ \A i \in DOMAIN cli.ops :
         LET o == cli.ops[i]
             src == AbsPath(cli.srcs[o.s])
             w == WalkOf(Cwd, src)
         IN  SrcIsDir(o.s) =>
               /\ Fstat(cli.dst).exists => Fstat(cli.dst).is_dir
               /\ \E rel \in FilesOf(w) \cup DirsOf(w) :
                    /\ o.src = src \o rel
                    /\ NormPath(o.dst) = PushRoot(o.s) \o rel
                    /\ (o.op = "_Mkdir") = (rel \in DirsOf(w) \ Links)
                    /\ (o.op = "_PushSingle") = (rel \notin DirsOf(w) \ Links)
    /\ \A s \in DOMAIN cli.srcs :
         (SrcIsDir(s) /\ Fstat(cli.dst).exists /\ ~Fstat(cli.dst).is_dir)
           => cli.at # "done"
    /\ cli.at = "done" =>
         \A s \in DOMAIN cli.srcs : SrcIsDir(s) =>
           \A rel \in FilesOf(WalkOf(Cwd, AbsPath(cli.srcs[s]))) :
             \E i \in DOMAIN cli.ops :
               /\ cli.ops[i].op = "_PushSingle"
               /\ cli.ops[i].src = AbsPath(cli.srcs[s]) \o rel
               /\ NormPath(cli.ops[i].dst) = PushRoot(s) \o rel

\* some_dir has been pushed whole into a directory of the agent's machine.
C28_Witness ==
  /\ cli.cmd = "push"
  /\ cli.at = "done"
  /\ cli.srcs = <<<<"some_dir", "">>>>
  /\ Fstat(cli.dst).is_dir
  /\ \E i \in DOMAIN cli.ops :
       /\ cli.ops[i].op = "_PushSingle"
       /\ NormPath(cli.ops[i].dst) = <<"/", "remote", "empty", "some_dir", "d", "b">>
  /\ \E i \in DOMAIN cli.ops : cli.ops[i].op = "_Mkdir"

(***************************************************************************)
(* ovl.py: OverlordCliClient.Pull.                                         *)
(***************************************************************************)
\* ghost.py HandleListTreeRequest: the _Fstat of the path as it was given,
\* then per step of the walk the files and the directories.
RECURSIVE RemoteWalk(_, _)
RemoteWalk(path, walk) ==
  IF walk = <<>> THEN <<>>
  ELSE StepEntries(path, Head(walk), Head(walk).files, FALSE)
       \o StepEntries(path, Head(walk), Head(walk).dirs, TRUE)
       \o RemoteWalk(path, Tail(walk))

HandleListTreeRequest(path) ==
  <<[path |-> path, is_dir |-> Fstat(path).is_dir, is_symlink |-> FALSE]>>
  \o (IF Fstat(path).is_dir THEN RemoteWalk(path, WalkOf(Remote, NormPath(path)))
      ELSE <<>>)

\* _LsTree: the entries of the response, a directory's path ending in "/".
LsTree(path) ==
  LET data == HandleListTreeRequest(path)
  IN  [i \in DOMAIN data |->
         [data[i] EXCEPT !.path =
            IF data[i].is_dir /\ @[Len(@)] # "" THEN Append(@, "") ELSE @]]

\* Pull: "while basename(common_prefix) != basename(args.src)": climb to the
\* directory named like the source, or to the root.
RECURSIVE PullPrefix(_, _)
PullPrefix(common_prefix, src) ==
  IF Basename(common_prefix) # Basename(src)
    THEN (IF Dirname(common_prefix) = <<"/">> THEN <<"/">>
          ELSE PullPrefix(Dirname(common_prefix), src))
    ELSE common_prefix

\* Pull: the local destination of one entry.
PullDst(path, dst, common_prefix, dst_exists) ==
  LET rel_path == RelPath(path, common_prefix)
  IN  IF dst_exists
        THEN (IF rel_path # <<".">>
                THEN PathJoin(PathJoin(dst, <<Basename(common_prefix)>>), rel_path)
                ELSE PathJoin(dst, <<Basename(common_prefix)>>))
        ELSE (IF rel_path = <<".">> THEN dst ELSE PathJoin(dst, rel_path))

\* Pull: pull_spec, the entries with their destinations.
PullSpec(src, dst_arg) ==
  LET entries == LsTree(src)
      dst == AbsPath(IF dst_arg = <<".">> THEN <<Basename(src)>> ELSE dst_arg)
      common_prefix ==
        PullPrefix(CommonPath([i \in DOMAIN entries |-> entries[i].path]), src)
  IN  [i \in DOMAIN entries |->
         [entry |-> entries[i],
          dst   |-> PullDst(entries[i].path, dst, common_prefix,
                            Kind(Cwd, dst) # "absent")]]

PullStart(src, dst) ==
  /\ cli.cmd = "None"
  /\ cli' = Invocation("pull", <<src>>, dst)
  /\ UnchangedByCli

\* Pull up to the second loop (ok: the lstree request succeeds).
PullPlan(ok) ==
  /\ cli.cmd = "pull"
  /\ cli.at = "check"
  /\ IF ~ok \/ ~Fstat(cli.srcs[1]).exists
       THEN cli' = [cli EXCEPT !.at = "raised"]
       ELSE cli' = [cli EXCEPT !.at = "entries",
                               !.todo = PullSpec(cli.srcs[1], cli.dst)]
  /\ UnchangedByCli

\* Pull: one turn of "for spec in pull_spec" (ok: the download succeeds).
PullEntry(ok) ==
  /\ cli.cmd = "pull"
  /\ cli.at = "entries"
  /\ IF cli.todo = <<>> THEN cli' = [cli EXCEPT !.at = "done"]
     ELSE LET e == Head(cli.todo)
          IN  cli' = [cli EXCEPT
                !.ops = Append(@, [op |-> IF e.entry.is_dir THEN "makedirs"
                                          ELSE "_PullSingle",
                                   s |-> 1,
                                   src |-> e.entry.path, dst |-> e.dst]),
                !.todo = Tail(@),
                !.at = IF ok \/ e.entry.is_dir THEN @ ELSE "raised"]
  /\ UnchangedByCli

(***************************************************************************)
(* C29.  The CLI client pulls some_dir (by two spellings), f or g of the   *)
(* agent's machine into ".", into a directory that exists or into a name   *)
(* that does not.                                                          *)
(***************************************************************************)
PullSources ==
  {Remote \o <<"some_dir">>, Remote \o <<"some_dir", "">>,
   Remote \o <<"empty">>, Remote \o <<"f">>, Remote \o <<"g">>,
   Remote \o <<"none">>}

PullTargets ==
  {<<".">>, <<"empty">>, <<"/", "home", "empty", "">>, <<"new">>,
   <<"/", "home", "new">>}

NextPull ==
  \/ \E src \in PullSources, dst \in PullTargets : PullStart(src, dst)
  \/ \E ok \in BOOLEAN : PullPlan(ok)
  \/ \E ok \in BOOLEAN : PullEntry(ok)

SpecPull == InitAgent /\ [][NextPull]_vars

\* Where the claim puts what is pulled: under dst/<name of src> when dst,
\* made absolute, exists on the client's machine, at dst otherwise.
PullRoot ==
  LET src == NormPath(cli.srcs[1])
      dst == AbsPath(cli.dst)
  IN  IF Kind(Cwd, dst) # "absent" THEN dst \o <<src[Len(src)]>> ELSE dst

\* C29: Pull of remote src to local dst: every entry src/<rel> of the
\* listing goes to <root>/<rel>, and a single remote file to <root>, where
\* <root> is dst/<basename of src> when dst exists locally and dst when it
\* does not; a directory entry is created with makedirs and a file with the
\* single-file pull.
C29_PullLayout ==
  cli.cmd = "pull" =>
    \A i \in DOMAIN cli.ops :
      LET o == cli.ops[i]
          src == NormPath(cli.srcs[1])
          w == WalkOf(Remote, src)
      IN  \E rel \in {<<>>} \cup FilesOf(w) \cup DirsOf(w) :
            /\ NormPath(o.src) = src \o rel
            /\ NormPath(o.dst) = PullRoot \o rel
            /\ (o.op = "makedirs") =
                 \/ rel \in DirsOf(w) \ Links
                 \/ rel = <<>> /\ Fstat(src).is_dir

(***************************************************************************)
(* C30.  How many chunks one read of Listen gives to json.loads, and what  *)
(* it pushes back.                                                         *)
(***************************************************************************)
\* What Recv returned to Listen in this step: the socket lost the bytes of
\* `wire` that `wire'` no longer has.
ReadData == Recv(buf, wire, BUFSIZE, Len(wire) - Len(wire')).data

\* A step of Listen that parsed something.
ListenParsed == pc = "Listen" /\ parsed' # parsed

\* What is in the head buffer after the step, or what the session handler
\* that the step started found there.
PushedBack == IF session = "None" /\ session' # "None" /\ sess' # <<>>
                THEN sess'[1] ELSE buf'

C31_HeadBufferEmptyAfterRegister ==
  (/\ mode = "AGENT"
   /\ pc = "Listen"
   /\ register_status = SUCCESS
   /\ parsed = 1) => buf = <<>>

(***************************************************************************)
(* The LAN discovery thread (StartLanDiscovery.thread_func), which shares  *)
(* Ghost._queue with the control thread.  lan.thread is where it is:       *)
(* "None" (not started), "select", "get", "paused" (in the inner loop that *)
(* waits for 'resume') or "dead" (left by an exception).                   *)
(***************************************************************************)
UnchangedByLan ==
  UNCHANGED <<mode, file_op, overlord_addrs, pc, cont, err, idx, sock, buf,
              register_status, reset, requests, last_ping, nextRid, session,
              issued, delivered, sent, parsed, dispatched, sess, conns,
              envVars, idVars, spawnVars, fdops, local, cli, rpc>>

\* Start(lan_disc=True): the thread is started before the loop begins.
StartLanDiscovery ==
  /\ mode = "AGENT"
  /\ pc = "Start"
  /\ conns = 0
  /\ err = "none"
  /\ lan.thread = "None"
  /\ lan' = [lan EXCEPT !.thread = "select"]
  /\ UnchangedByLan

\* What a datagram makes the thread put in the queue.  data.split() gives
\* bytes, and "parts[0] == 'OVERLORD'" compares bytes with a str: it is
\* false for every datagram, so nothing is put; a datagram of white space
\* has no parts[0] and the IndexError ends the thread.
DiscRecv(dgram) ==
  /\ lan.thread = "select"
  /\ lan' = [lan EXCEPT !.thread = IF dgram = "blank" THEN "dead" ELSE "get"]
  /\ UnchangedByLan

\* "obj = self._queue.get(False)": what is no str is put back at the end of
\* the queue, 'pause' enters the inner loop, another str is dropped.
DiscGet ==
  /\ lan.thread = "get"
  /\ IF lan.queue = <<>> THEN lan' = [lan EXCEPT !.thread = "select"]
     ELSE IF Head(lan.queue).kind # "str"
       THEN lan' = [lan EXCEPT !.thread = "select",
                               !.queue = Append(Tail(@), Head(@))]
     ELSE lan' = [lan EXCEPT !.thread = IF Head(lan.queue).v = "pause"
                                          THEN "paused" ELSE "select",
                             !.queue = Tail(@)]
  /\ UnchangedByLan

\* "while obj != 'resume': obj = self._queue.get(True)": the blocking get
\* takes what is first in the queue, whatever it is.
DiscPaused ==
  /\ lan.thread = "paused"
  /\ lan.queue # <<>>
  /\ lan' = [lan EXCEPT !.thread = IF Head(lan.queue) = Token("resume")
                                     THEN "select" ELSE "paused",
                        !.queue = Tail(@)]
  /\ UnchangedByLan

Datagrams == {"none", "beacon", "other", "blank"}

NextLan ==
  \/ StartLanDiscovery
  \/ \E dgram \in Datagrams : DiscRecv(dgram)
  \/ DiscGet
  \/ DiscPaused
  \/ StartLoop
  \/ Try
  \/ ResetClose
  \/ ResetDone
  \/ Sleep
  \/ \E outcome \in {"refused", "ok"} : Connect(outcome, MaxConn)
  \/ Listen
  \/ Reconnect
  \/ \E i \in {j \in DOMAIN sent : sent[j].name = "register"} :
       ServerSend(Frame(Response(sent[i].rid, SUCCESS)))
  \/ ServerClose
  \/ Tick

SpecLan == InitAgent /\ [][NextLan]_vars

(***************************************************************************)
(* C32.  The registered AGENT leaves Listen: the resume token.             *)
(***************************************************************************)
\* The registered AGENT is leaving Listen for one of the four causes: the
\* finally clause (Reset) is about to finish.
LeavingListen ==
  /\ mode = "AGENT"
  /\ pc = "Reset2"
  /\ register_status = SUCCESS
  /\ \/ cont = "ListenBreak"
     \/ cont = "ListenRaise"
        /\ err \in {"Connection dropped", "Connection timeout"}

\* C32: every exit from Listen after a successful AGENT registration, by
\* end of stream, the reset flag, a socket error or a ping timeout, puts a
\* resume token on the queue.
C32_EveryExitResumes ==
  [][(LeavingListen /\ pc' # pc) =>
       /\ lan'.queue # <<>>
       /\ lan'.queue[Len(lan'.queue)] = Token("resume")
       /\ Len(lan'.queue) = Len(lan.queue) + 1]_vars

(***************************************************************************)
(* C33.  Who takes what from the queue.                                    *)
(***************************************************************************)
\* C33: with the discovery thread running, what the control loop takes
\* from the queue at the top of Start's loop is never a pause or resume
\* token.
C33_LoopTakesNoToken ==
  [][(lan.thread # "None" /\ pc = "Start" /\ pc' = "Try" /\ lan.queue # <<>>)
       => Head(lan.queue).kind # "str"]_vars

(***************************************************************************)
(* C34.  What follows the loss of a connection.                            *)
(***************************************************************************)
\* C34: the AGENT goes to sleep the retry interval, to restart from the
\* first candidate, only when no candidate remains: not when a read error
\* on the socket has ended the connection to a candidate that has others
\* behind it.
C34_SleepsOnlyWhenNoCandidateRemains ==
  [][(/\ mode = "AGENT"
      /\ pc # "Sleep"
      /\ pc' = "Sleep"
      /\ err' \in {"Cannot connect to any server", "Connection dropped"})
       => idx >= Len(overlord_addrs)]_vars

(***************************************************************************)
(* The download queue and the tables of the local RPC server: terminals    *)
(* register their tty names, "ghost --download" queues a file for a tty    *)
(* name, registered or not.                                                *)
(***************************************************************************)
TTYNames == {"tty1", "tty2"}

\* The sid of the terminal session that owns a tty.
SidOf(ttyname) == IF ttyname = "tty1" THEN "s1" ELSE "s2"

NextDownload ==
  \/ StartLoop
  \/ Try
  \/ ResetClose
  \/ ResetDone
  \/ Sleep
  \/ Connect("ok", MaxConn)
  \/ Listen
  \/ \E t \in TTYNames : RegisterTTY(SidOf(t), t)
  \/ RegisterSession("s1", "pid1")
  \/ \E t \in TTYNames : AddToDownloadQueue(t)
  \/ \E i \in {j \in DOMAIN sent : sent[j].name = "register"} :
       ServerSend(Frame(Response(sent[i].rid, SUCCESS)))

SpecDownload == InitAgent /\ [][NextDownload]_vars

(***************************************************************************)
(* C35.  What Reset leaves behind.                                         *)
(***************************************************************************)
\* C35 as stated: when Reset returns, at the start of a candidate attempt
\* and after a disconnect, the agent has no socket, an empty request map,
\* register status DISCONNECTED, a cleared reset flag, and both agent-local
\* tables (tty name to sid, sid to process id) are empty.
C35_ResetLeavesNothing ==
  [][(mode = "AGENT" /\ pc = "Reset2" /\ pc' # pc) =>
       /\ sock' = "None"
       /\ requests' = EmptyDict
       /\ register_status' = DISCONNECTED
       /\ ~reset'
       /\ rpc'.ttyname_to_sid = EmptyDict
       /\ rpc'.terminal_sid_to_pid = EmptyDict]_vars

\* What Reset does leave empty: the statement without the two tables.
ResetLeavesConnectionState ==
  [][(mode = "AGENT" /\ pc = "Reset2" /\ pc' # pc) =>
       /\ sock' = "None"
       /\ requests' = EmptyDict
       /\ register_status' = DISCONNECTED
       /\ ~reset']_vars

(***************************************************************************)
(* C38.  A download queued for a tty name that no terminal registered.     *)
(***************************************************************************)
\* The listener tick that takes from the download queue a pair whose tty
\* name has no registered sid.
PopsUnknownTTY ==
  /\ mode = "AGENT"
  /\ pc = "Listen"
  /\ download_queue # <<>>
  /\ Head(download_queue).ttyname \notin DOMAIN ttyname_to_sid
  /\ download_queue' = Tail(download_queue)

\* C38 as stated: the tick that takes a pair with an unregistered tty name
\* from the queue forks no child and leaves the control channel as it was:
\* the agent goes on listening on its open socket with its registration
\* status.
C38_UnknownTTYLeavesChannel ==
  [][PopsUnknownTTY =>
       /\ children' = children
       /\ pc' = "Listen"
       /\ sock' = "open"
       /\ register_status' = register_status]_vars

\* What does hold of that tick: no child is forked, and Listen is left with
\* the KeyError of the table lookup.
UnknownTTYRaises ==
  [][PopsUnknownTTY =>
       /\ children' = children
       /\ pc' = "Reset"
       /\ cont' = "ListenRaise"
       /\ err' = "KeyError"]_vars

(***************************************************************************)
(* C37.  The download queue is served first in, first out.                 *)
(***************************************************************************)
\* The terminal sids of the children forked, in the order of the forks, and
\* the sids registered for the pairs still waiting, in the order of the queue.
ServedSids == [i \in DOMAIN children |-> children[i].terminal_sid]
WaitingSids ==
  [i \in DOMAIN download_queue |-> ttyname_to_sid[download_queue[i].ttyname]]

\* Every pair queued so far named a tty that was registered when it was
\* queued.
AllKnown == \A i \in DOMAIN rpc.queued : rpc.queued[i].known

\* The pairs queued so far have been served in the order of their queueing,
\* once each, by a FILE child that downloads to the terminal registered for
\* the tty name; the rest waits in that order.
ServedInOrder ==
  AllKnown =>
    /\ ServedSids \o WaitingSids =
         [i \in DOMAIN rpc.queued |-> ttyname_to_sid[rpc.queued[i].ttyname]]
    /\ \A i \in DOMAIN children :
         /\ children[i].mode = "FILE"
         /\ children[i].file_op = "download"
         /\ children[i].sid = "None"

\* One step takes at most one pair from the queue and forks at most one
\* child.
OnePerTick ==
  /\ Len(download_queue') >= Len(download_queue) - 1
  /\ Len(children') <= Len(children) + 1

GetStatus ==
  IF register_status # SUCCESS
    THEN [raised |-> "none", status |-> <<register_status>>]
  ELSE IF sock = "None"
    THEN [raised |-> "AttributeError", status |-> <<>>]
  ELSE [raised |-> "none", status |-> <<register_status, overlord_addrs[idx]>>]

\* C40 as stated: at every point of the control loop GetStatus returns, no
\* state has register status success without a socket, and a status
\* reported with a peer address is that of an open socket.
C40_GetStatusNeverFails ==
  (mode = "AGENT" /\ pc # "Exited") =>
    /\ GetStatus.raised = "none"
    /\ register_status = SUCCESS => sock = "open"
    /\ Len(GetStatus.status) = 2 => sock = "open"

\* What does hold: outside Reset, between the closing of the socket and the
\* assignment of DISCONNECTED, a successful status has its socket.
GetStatusOutsideReset ==
  (mode = "AGENT" /\ pc \notin {"Exited", "Reset2"}) =>
    /\ GetStatus.raised = "none"
    /\ register_status = SUCCESS => sock = "open"

(***************************************************************************)
(* C39.  In one iteration of Listen: the read, then the timeout scan.      *)
(***************************************************************************)
\* The complete chunks of what a read returned: all but what follows the
\* last separator.
CompleteChunks(data) == Take(Split(data), Len(Split(data)) - 1)

\* The responses that the read of this step returned whole.
ResponsesRead ==
  {JsonLoads(c).obj : c \in
     {ch \in {CompleteChunks(ReadData)[i] :
                i \in DOMAIN CompleteChunks(ReadData)} :
        /\ JsonLoads(ch).kind = "object"
        /\ {"rid", "status"} \subseteq DOMAIN JsonLoads(ch).obj}}

\* The handler of request r is invoked with None in this step.
HandlerGetsNull(r) ==
  /\ Len(delivered'[r]) > Len(delivered[r])
  /\ delivered'[r][Len(delivered'[r])] = "null"

\* C39 as stated: in an iteration of Listen that reads from the socket, the
\* handler of an overdue request whose response was read in that iteration
\* is not invoked with None by the timeout scan.
C39_ReadBeforeScan ==
  [][(pc = "Listen" /\ Len(wire') < Len(wire)) =>
       \A m \in ResponsesRead :
         (m["rid"] \in Overdue /\ Callable(requests[m["rid"]].handler)) =>
           ~HandlerGetsNull(m["rid"])]_vars

\* The messages this step gave to their handlers.
NewlyDispatched ==
  [i \in 1..(Len(dispatched') - Len(dispatched)) |->
     dispatched'[Len(dispatched) + i]]

\* What does hold: a response that the iteration dispatched reaches the
\* handler of its pending request, overdue or not, and the entry is removed
\* before the scan; only a response that the read returned but ParseMessage
\* pushed back (register status not yet success) can lose against the scan.
DispatchedBeforeScan ==
  [][(pc = "Listen" /\ Len(dispatched') > Len(dispatched)) =>
       \A i \in DOMAIN NewlyDispatched :
         LET m == NewlyDispatched[i] IN
         (/\ {"rid", "status"} \subseteq DOMAIN m
          /\ m["rid"] \in DOMAIN requests
          /\ Callable(requests[m["rid"]].handler)
          /\ \A j \in 1..(i - 1) :
               "rid" \in DOMAIN NewlyDispatched[j] =>
                 NewlyDispatched[j]["rid"] # m["rid"]) =>
           /\ delivered'[m["rid"]] = Append(delivered[m["rid"]], m["status"])
           /\ m["rid"] \notin DOMAIN requests']_vars

\* The same statement as C39 for reads made once the agent is registered.
ReadBeforeScanOnceRegistered ==
  [][(pc = "Listen" /\ Len(wire') < Len(wire)
      /\ register_status = SUCCESS) =>
       \A m \in ResponsesRead :
         (m["rid"] \in Overdue /\ Callable(requests[m["rid"]].handler)) =>
           ~HandlerGetsNull(m["rid"])]_vars

(***************************************************************************)
(* C36.  A resize sequence that lies across two reads of the terminal.     *)
(***************************************************************************)
\* The reads the terminal session made from its socket after the head
\* buffer, and a resize sequence of their bytes that no single read holds.
SocketReads == Tail(sess)

SplitResize ==
  /\ Len(sess) >= 2
  /\ ReadByRead(SocketReads) # WithoutResizes(Flatten(SocketReads), 0)

\* The stream b is one that _ProcessBuffer handles as stated when a single
\* read returns all of it.
ScansWhenWhole(b) ==
  /\ Ioctls(ProcessBuffer(b)) = ResizesOf(b, 0)
  /\ PtyBytes(ProcessBuffer(b)) = WithoutResizes(b, 0)

\* C36 as stated: in a TERMINAL session that has read the operator's stream
\* with a resize sequence begun at the end of one read and completed by the
\* next, that sequence too is recognised: the window sizes set are those of
\* the resize sequences of the stream, one ioctl each, and no byte of a
\* resize sequence is written to the pty.
C36_SplitResizeRecognised ==
  (/\ session = "SpawnTTYServer"
   /\ Flatten(sess) = script.tail
   /\ ScansWhenWhole(script.tail)
   /\ SplitResize)
    => /\ Ioctls(fdops) = ResizesOf(script.tail, 0)
       /\ PtyBytes(fdops) = WithoutResizes(script.tail, 0)

====
